---- MODULE Spec2Model ----
(***************************************************************************)
(* The persistent datastore of the tunnel client (package psiphon,         *)
(* dataStore.go): the singleton bolt handle, the server entry registry,    *)
(* the ranked server entry vector, the server entry filter memo, the cache *)
(* slots and the persistent stat queue.                                    *)
(*                                                                         *)
(* Go values are modelled as follows.  A string or a []byte is a sequence  *)
(* of byte values; a []byte that may be nil is a record [isNil, b].  A     *)
(* bolt bucket is a function whose domain is the set of keys it holds.     *)
(* Every dataStoreUpdate / dataStoreView is one step: bolt serializes      *)
(* read-write transactions and commits them atomically.                    *)
(***************************************************************************)
EXTENDS Integers, Sequences, FiniteSets, TLC

\* ------------------------------------------------------------------ bounds

\* Number of distinct server entry ids (IP addresses) the callers use.
NumServerIds == 2
\* Highest configurationVersion the callers submit.
MaxVersion == 1
\* Number of distinct persistent stat keys the callers use.
NumStatKeys == 3
\* Number of callers that hold taken-out stats at the same time.
NumCallers == 2
\* Length of the embedded server entry list imported at start up.
EmbeddedCount == 99
\* The number of entries scenario S4 imports, above the cap of the ranked vector.
S4Count == 150

\* Notices the controller emits during one Start.
MaxNotices == 3

\* C strings that calls of Start allocate.
MaxResults == 3

\* Calls of session.AcceptStream on one Conn.
MaxAcceptStreams == 3

\* Calls of Dial, one after the other.
MaxDials == 2

\* The random sources of the shuffle of Reset are numbered 0 to MaxSeed.
MaxSeed == 5

\* --------------------------------------------------------- program constants

rankedServerEntryCount == 100

rankedServerEntriesKey == "rankedServerEntries"

DATA_STORE_LAST_CONNECTED_KEY == "lastConnected"

DATA_STORE_LAST_SERVER_ENTRY_FILTER_KEY == "lastServerEntryFilter"

PERSISTENT_STAT_TYPE_REMOTE_SERVER_LIST == "remoteServerListStats"

\* "0"
persistentStatStateUnreported == <<48>>

\* "1"
persistentStatStateReporting == <<49>>

persistentStatTypes == <<PERSISTENT_STAT_TYPE_REMOTE_SERVER_LIST>>

\* The value existingConfigurationVersion keeps when no decodable entry is stored.
NoConfigurationVersion == -1

\* ------------------------------------------------------------ input domains

\* Server entry ids of the callers; the embedded list uses the ids above them.
ServerIds == 1..NumServerIds

EmbeddedIds == (NumServerIds + 1)..(NumServerIds + EmbeddedCount)

\* configurationVersion is a Go int read from JSON: negative values are accepted.
Versions == NoConfigurationVersion..MaxVersion

\* config.EgressRegion: "", "CA", "US".
Regions == {<<>>, <<67, 65>>, <<85, 83>>}

\* Stat keys as bytes: "{}", "[]", "x", "0", "{" (the third and fifth are not JSON).
AllStatKeys == <<  <<123, 125>>, <<91, 93>>, <<120>>, <<48>>, <<123>>  >>

StatKeys == {AllStatKeys[i] : i \in 1..NumStatKeys}

StatTypes == {PERSISTENT_STAT_TYPE_REMOTE_SERVER_LIST, "tunnelStats"}

Callers == 1..NumCallers

\* Largest maxCount handed to TakeOutUnreportedPersistentStats.
MaxTakeOut == NumStatKeys

\* ------------------------------------------------------------- Go helpers

NilBytes == [isNil |-> TRUE, b |-> <<>>]

\* []byte(s) of a string s: a non-nil slice with the bytes of s.
ToBytes(s) == [isNil |-> FALSE, b |-> s]

Min(a, b) == IF a < b THEN a ELSE b

\* Lexicographic order of byte sequences: -1, 0 or 1.
RECURSIVE seqCompare(_, _)
seqCompare(a, b) ==
    IF a = <<>> /\ b = <<>> THEN 0
    ELSE IF a = <<>> THEN -1
    ELSE IF b = <<>> THEN 1
    ELSE IF Head(a) < Head(b) THEN -1
    ELSE IF Head(a) > Head(b) THEN 1
    ELSE seqCompare(Tail(a), Tail(b))

\* bytes.Compare: a nil argument is equivalent to an empty slice.
bytesCompare(x, y) == seqCompare(x.b, y.b)

\* json.Unmarshal(key, &jsonData) succeeds: the JSON documents among the keys used.
jsonUnmarshalOK(key) ==
    \/ key = <<123, 125>>
    \/ key = <<91, 93>>
    \/ (Len(key) = 1 /\ key[1] \in 48..57)

\* ------------------------------------------------------------ bolt buckets

EmptyBucket == [k \in {} |-> 0]

\* bucket.Get(key): nil when the key does not exist.
BucketGet(bucket, key) ==
    IF key \in DOMAIN bucket THEN ToBytes(bucket[key]) ELSE NilBytes

BucketPut(bucket, key, value) ==
    [k \in (DOMAIN bucket) \cup {key} |-> IF k = key THEN value ELSE bucket[k]]

BucketDelete(bucket, key) ==
    [k \in (DOMAIN bucket) \ {key} |-> bucket[k]]

\* The keys of a bucket in cursor order (First, Next, ...): ascending byte order.
RECURSIVE CursorKeys(_)
CursorKeys(keys) ==
    IF keys = {} THEN <<>>
    ELSE LET first == CHOOSE k \in keys : \A o \in keys : seqCompare(k, o) <= 0
         IN  <<first>> \o CursorKeys(keys \ {first})

\* ------------------------------------------------------------------- state

VARIABLES
    datastoreDB,   \* the published handle: "nil" or "open"
    openPC,        \* where a running OpenDataStore stands: "idle" or "reset"
    boltFile,      \* the buckets of psiphon.boltdb, as last committed
    importing,     \* StoreServerEntries in progress: the entries still to store
    taken,         \* per caller, the stats map its last take out returned
    lastOp,        \* the last operation: its name, arguments and results (and,
                   \* for a take out, in prev the operation it follows)
    promoted,      \* the config and the id of the last committed promotion, if any
    crashImage,    \* the stat buckets as they were at the last crash, kept while
                   \* the only stat operations since are the reset of the next
                   \* OpenDataStore ("reopened") and one take out ("retaken")
    disk,          \* psiphon.boltdb on disk: whether it exists and attaches, which
                   \* buckets it has, and whether its directory can be written
    attached,      \* the number of bolt.DB objects this process has open
    inflight,      \* per caller, a dataStoreView / dataStoreUpdate that has read
                   \* the handle and not yet run its transaction
    slices,        \* the byte slice the last getter returned and what it refers to
    iterator,      \* the ServerEntryIterator in use, and what it yielded this cycle
    startCall,     \* a running Start of the client library and its goroutines
    conn,          \* a quic Conn that Listener.Accept returned, and its callers
    dial           \* a running quic Dial, its goroutine and what it was given

diskVars == <<disk, attached>>

clientVars == <<inflight, slices, iterator, startCall, conn, dial>>

vars == <<datastoreDB, openPC, boltFile, importing, taken, lastOp, promoted, crashImage,
          disk, attached, inflight, slices, iterator, startCall, conn, dial>>

\* The empty stats map of a take out that found nothing.
EmptyStats == [t \in {} |-> <<>>]

NoOp ==
    [op |-> "none", prev |-> "none", ip |-> 0, ver |-> 0, flag |-> FALSE,
     region |-> <<>>, stats |-> EmptyStats, n |-> 0, err |-> FALSE, out |-> FALSE,
     config |-> <<>>]

NotImporting == [list |-> <<>>, replaceIfExists |-> FALSE]

NotPromoted == [set |-> FALSE, region |-> <<>>, ipAddress |-> 0]

NoCrashImage == [phase |-> "none", buckets |-> EmptyBucket]

\* The buckets OpenDataStore creates, all empty.
EmptyFile ==
    [serverEntries |-> EmptyBucket,
     rankedServerEntries |-> EmptyBucket,
     splitTunnelRouteETags |-> EmptyBucket,
     splitTunnelRouteData |-> EmptyBucket,
     urlETags |-> EmptyBucket,
     keyValues |-> EmptyBucket,
     remoteServerListStats |-> EmptyBucket,
     SLOKs |-> EmptyBucket,
     tactics |-> EmptyBucket,
     speedTestSamples |-> EmptyBucket]

\* The record of an operation named op.
Did(op) == [NoOp EXCEPT !.op = op]

\* No datastore file yet, in a directory that can be written. leaked: a bolt.DB
\* of this process that was never closed holds the lock of the file.
NoFile == [file |-> "absent", dirWritable |-> TRUE, buckets |-> {}, leaked |-> FALSE]

\* No caller is between reading the handle and running its transaction.
NoneInflight == [c \in Callers |-> [pc |-> "idle", db |-> "nil", update |-> FALSE]]

\* No getter has returned a slice. A slice is kept with the file as it was when
\* the getter ran, and with whether its bolt.DB has been closed since.
NoSlice ==
    [op |-> "none", copied |-> TRUE, data |-> NilBytes, file |-> EmptyFile,
     unmapped |-> FALSE]

\* No iterator. Beside the fields of ServerEntryIterator, yielded holds the ids
\* Next returned since the last Reset, done whether it returned nil, and stored
\* the server entry bucket as the view of the last Reset saw it.
NoIterator ==
    [set |-> FALSE, config |-> [EgressRegion |-> <<>>], shuffleHeadLength |-> 0,
     serverEntryIds |-> <<>>, serverEntryIndex |-> 0, yielded |-> <<>>, done |-> FALSE,
     isTacticsServerEntryIterator |-> FALSE, isTargetServerEntryIterator |-> FALSE,
     hasNextTargetServerEntry |-> FALSE,
     targetServerEntry |-> [IpAddress |-> 0, Region |-> <<>>],
     stored |-> EmptyFile.serverEntries]

\* The client library before Start: pc is where the caller of Start stands,
\* controller the goroutine that runs controller.Run, timedOut whether
\* timeoutSignal is done, result the startResult returned (Code -1: none yet).
\* connectedNotice and errorSignalled record that a Tunnels notice with
\* count > 0 was emitted before the timeout, and that an error was sent.
\* heap holds the C strings allocated so far, in the order of allocation, each
\* "live", "freed" or "freedTwice"; managedStartResult is the index of the one
\* the variable of that name points to (0: nil).
NoStartCall ==
    [pc |-> "none", controller |-> "none", cancelled |-> FALSE, timedOut |-> FALSE,
     httpProxyPort |-> 0, socksProxyPort |-> 0, notices |-> 0,
     connectedNotice |-> FALSE, errorSignalled |-> FALSE,
     result |-> [Code |-> -1, HttpProxyPort |-> 0, SocksProxyPort |-> 0],
     heap |-> <<>>, managedStartResult |-> 0]

\* No Conn yet. stream is 0 for nil, else the number of the AcceptStream call
\* that returned it; acceptMutex is 0 or the caller that holds it; pc is where
\* each caller stands in its call, op the method it called.
NoConn ==
    [made |-> FALSE, deferredAcceptStream |-> FALSE, stream |-> 0, acceptErr |-> FALSE,
     acceptMutex |-> 0, sessionClosed |-> FALSE, isClosed |-> FALSE,
     acceptStreamCalls |-> 0,
     pc |-> [c \in Callers |-> "idle"], op |-> [c \in Callers |-> "none"]]

\* No Dial yet. pc is where the caller of Dial stands and goroutine where the
\* goroutine that opens the stream stands; sending is what that goroutine
\* offers on resultChannel; result is what Dial returned; dials counts the
\* calls of Dial.
NoDial ==
    [pc |-> "none", goroutine |-> "none", ctxDone |-> FALSE, hasDeadline |-> FALSE,
     packetConnClosed |-> FALSE, session |-> "none", sending |-> "none",
     result |-> "none", dials |-> 0]

\* The memory of a new process.
InitProcess ==
    /\ datastoreDB = "nil"
    /\ openPC = "idle"
    /\ importing = NotImporting
    /\ taken = [c \in Callers |-> EmptyStats]
    /\ lastOp = NoOp
    /\ promoted = NotPromoted
    /\ crashImage = NoCrashImage
    /\ attached = 0
    /\ inflight = NoneInflight
    /\ slices = NoSlice
    /\ iterator = NoIterator
    /\ startCall = NoStartCall
    /\ conn = NoConn
    /\ dial = NoDial

Init ==
    /\ InitProcess
    /\ boltFile = EmptyFile
    /\ disk = NoFile

\* dataStoreView / dataStoreUpdate fail with "database not open" on a nil handle.
dataStoreOpen == datastoreDB # "nil"

\* ---------------------------------------------------------- server registry

\* json.Marshal(serverEntryFields): the stored bytes decode to these fields.
\* serverEntryFields is a map, and the stored JSON has the "region" key only
\* when the map has it.
MarshalServerEntry(fields) ==
    [decodes |-> TRUE, ConfigurationVersion |-> fields.configurationVersion,
     Region |-> IF "region" \in DOMAIN fields THEN fields.region ELSE NilBytes]

\* Stored bytes that json.Unmarshal rejects as not JSON.
GarbageServerEntry == [decodes |-> FALSE, ConfigurationVersion |-> 0, Region |-> NilBytes]

\* Stored bytes of the ranked vector that json.Unmarshal rejects.
GarbageRankedServerEntries == <<-1>>

getRankedServerEntries(file) ==
    LET data == BucketGet(file.rankedServerEntries, rankedServerEntriesKey)
    IN  IF data.isNil THEN <<>> ELSE data.b

\* getRankedServerEntries returns an error: the stored bytes do not decode.
getRankedServerEntriesFails(file) ==
    LET data == BucketGet(file.rankedServerEntries, rankedServerEntriesKey)
    IN  ~data.isNil /\ data.b = GarbageRankedServerEntries

setRankedServerEntries(file, rankedServerEntries) ==
    [file EXCEPT !.rankedServerEntries =
        BucketPut(@, rankedServerEntriesKey, rankedServerEntries)]

\* The slice with the first occurrence of serverEntryId removed (the loop breaks).
RemoveRanked(ranked, serverEntryId) ==
    IF \E i \in 1..Len(ranked) : ranked[i] = serverEntryId
    THEN LET i == CHOOSE j \in 1..Len(ranked) :
                    /\ ranked[j] = serverEntryId
                    /\ \A k \in 1..(j - 1) : ranked[k] # serverEntryId
         IN  SubSeq(ranked, 1, i - 1) \o SubSeq(ranked, i + 1, Len(ranked))
    ELSE ranked

\* InsertRanked with the cap test off by one: a full vector still grows.
InsertRankedOverCap(ranked, serverEntryId, position) ==
    LET removed == RemoveRanked(ranked, serverEntryId)
        grown == IF Len(removed) <= rankedServerEntryCount
                 THEN Append(removed, 0) ELSE removed
        pos == IF position >= Len(grown) THEN Len(grown) - 1 ELSE position
    IN  [i \in 1..Len(grown) |->
            IF i < pos + 1 THEN grown[i]
            ELSE IF i = pos + 1 THEN serverEntryId
            ELSE grown[i - 1]]

\* InsertRanked evicting the head of a full vector instead of its tail.
InsertRankedDropsHead(ranked, serverEntryId, position) ==
    LET removed == RemoveRanked(ranked, serverEntryId)
        grown == IF Len(removed) < rankedServerEntryCount
                 THEN Append(removed, 0) ELSE Append(Tail(removed), 0)
        pos == IF position >= Len(grown) THEN Len(grown) - 1 ELSE position
    IN  [i \in 1..Len(grown) |->
            IF i < pos + 1 THEN grown[i]
            ELSE IF i = pos + 1 THEN serverEntryId
            ELSE grown[i - 1]]

\* InsertRanked without the removal of an id that is ranked already.
InsertRankedNoRemove(ranked, serverEntryId, position) ==
    LET grown == IF Len(ranked) < rankedServerEntryCount
                 THEN Append(ranked, 0) ELSE ranked
        pos == IF position >= Len(grown) THEN Len(grown) - 1 ELSE position
    IN  [i \in 1..Len(grown) |->
            IF i < pos + 1 THEN grown[i]
            ELSE IF i = pos + 1 THEN serverEntryId
            ELSE grown[i - 1]]

\* The mutation of insertRankedServerEntry; position counts from 0 as in the code.
InsertRanked(ranked, serverEntryId, position) ==
    LET removed == RemoveRanked(ranked, serverEntryId)
        grown == IF Len(removed) < rankedServerEntryCount
                 THEN Append(removed, 0) ELSE removed
        pos == IF position >= Len(grown) THEN Len(grown) - 1 ELSE position
    IN  [i \in 1..Len(grown) |->
            IF i < pos + 1 THEN grown[i]
            ELSE IF i = pos + 1 THEN serverEntryId
            ELSE grown[i - 1]]

insertRankedServerEntry(file, serverEntryId, position) ==
    setRankedServerEntries(
        file, InsertRanked(getRankedServerEntries(file), serverEntryId, position))

\* The configuration version StoreServerEntry reads back for ipAddress.
existingConfigurationVersion(file, ipAddress) ==
    IF ipAddress \in DOMAIN file.serverEntries /\ file.serverEntries[ipAddress].decodes
    THEN file.serverEntries[ipAddress].ConfigurationVersion
    ELSE NoConfigurationVersion

\* insertRankedServerEntry returns an error: the ranked vector cannot be read.
insertRankedServerEntryFails(file) == getRankedServerEntriesFails(file)

\* The update decision of StoreServerEntry.
StoreServerEntryUpdates(file, fields, replaceIfExists) ==
    LET existing == existingConfigurationVersion(file, fields.ipAddress)
        exists == existing > NoConfigurationVersion
        newer == exists /\ existing < fields.configurationVersion
    IN  ~exists \/ replaceIfExists \/ newer

\* The function of the transaction returns an error, and bolt rolls back.
StoreServerEntryTxFails(file, fields, replaceIfExists) ==
    /\ StoreServerEntryUpdates(file, fields, replaceIfExists)
    /\ insertRankedServerEntryFails(file)

\* StoreServerEntryTx committing the entry when the rank insert has failed.
StoreServerEntryTxNoRollback(file, fields, replaceIfExists) ==
    LET ipAddress == fields.ipAddress
        written == [file EXCEPT !.serverEntries =
                       BucketPut(@, ipAddress, MarshalServerEntry(fields))]
    IN  IF ~StoreServerEntryUpdates(file, fields, replaceIfExists) THEN file
        ELSE IF insertRankedServerEntryFails(written) THEN written
        ELSE insertRankedServerEntry(written, ipAddress, 1)

\* StoreServerEntryTx ranking the stored entry at the top.
StoreServerEntryTxAtTop(file, fields, replaceIfExists) ==
    LET ipAddress == fields.ipAddress
        written == [file EXCEPT !.serverEntries =
                       BucketPut(@, ipAddress, MarshalServerEntry(fields))]
    IN  IF ~StoreServerEntryUpdates(file, fields, replaceIfExists) THEN file
        ELSE IF insertRankedServerEntryFails(written) THEN file
        ELSE insertRankedServerEntry(written, ipAddress, 0)

\* The transaction of StoreServerEntry: the file it commits.
StoreServerEntryTx(file, fields, replaceIfExists) ==
    LET ipAddress == fields.ipAddress
        existing == existingConfigurationVersion(file, ipAddress)
        exists == existing > NoConfigurationVersion
        newer == exists /\ existing < fields.configurationVersion
        update == ~exists \/ replaceIfExists \/ newer
        written == [file EXCEPT !.serverEntries =
                       BucketPut(@, ipAddress, MarshalServerEntry(fields))]
    IN  IF ~update THEN file
        ELSE IF insertRankedServerEntryFails(written) THEN file
        ELSE insertRankedServerEntry(written, ipAddress, 1)

\* StoreServerEntry returns an error before its transaction: invalid fields, or
\* no open datastore.
StoreServerEntryFails(fields) == ~fields.valid \/ ~dataStoreOpen

StoreServerEntry(fields, replaceIfExists) ==
    /\ boltFile' = IF StoreServerEntryFails(fields) THEN boltFile
                   ELSE StoreServerEntryTx(boltFile, fields, replaceIfExists)
    /\ lastOp' = [Did("StoreServerEntry") EXCEPT !.ip = fields.ipAddress,
                              !.ver = fields.configurationVersion,
                              !.flag = replaceIfExists,
                              !.out = /\ ~StoreServerEntryFails(fields)
                                      /\ StoreServerEntryTxFails(boltFile, fields, replaceIfExists),
                              !.err = \/ StoreServerEntryFails(fields)
                                      \/ StoreServerEntryTxFails(boltFile, fields, replaceIfExists)]
    /\ UNCHANGED <<diskVars, clientVars, datastoreDB, openPC, importing, taken, promoted, crashImage>>

\* StoreServerEntries is called with a list; no entry is stored yet.
StoreServerEntriesCall(serverEntries, replaceIfExists) ==
    /\ importing.list = <<>>
    /\ serverEntries # <<>>
    /\ importing' = [list |-> serverEntries, replaceIfExists |-> replaceIfExists]
    /\ lastOp' = Did("StoreServerEntriesCall")
    /\ UNCHANGED <<diskVars, clientVars, datastoreDB, openPC, boltFile, taken, promoted, crashImage>>

\* One turn of the loop of StoreServerEntries: one entry, one transaction.
StoreServerEntriesStep ==
    /\ importing.list # <<>>
    /\ LET fields == Head(importing.list)
           failed == \/ StoreServerEntryFails(fields)
                     \/ StoreServerEntryTxFails(boltFile, fields, importing.replaceIfExists)
       IN  /\ boltFile' = IF StoreServerEntryFails(fields) THEN boltFile
                          ELSE StoreServerEntryTx(boltFile, fields, importing.replaceIfExists)
           /\ importing' = IF failed THEN NotImporting
                           ELSE IF Tail(importing.list) = <<>> THEN NotImporting
                           ELSE [importing EXCEPT !.list = Tail(@)]
           /\ lastOp' = [Did("StoreServerEntries") EXCEPT !.ip = fields.ipAddress,
                                     !.ver = fields.configurationVersion,
                                     !.flag = importing.replaceIfExists,
                                     !.err = failed]
    /\ UNCHANGED <<diskVars, clientVars, datastoreDB, openPC, taken, promoted, crashImage>>

\* Stored bytes of a server entry are overwritten with garbage (disk corruption).
CorruptServerEntry(ipAddress) ==
    /\ ipAddress \in DOMAIN boltFile.serverEntries
    /\ boltFile.serverEntries[ipAddress].decodes
    /\ boltFile' = [boltFile EXCEPT !.serverEntries[ipAddress] = GarbageServerEntry]
    /\ lastOp' = [Did("CorruptServerEntry") EXCEPT !.ip = ipAddress]
    /\ UNCHANGED <<diskVars, clientVars, datastoreDB, openPC, importing, taken, promoted, crashImage>>

\* Stored bytes of a server entry are overwritten with JSON that json.Unmarshal
\* rejects for the type of a value: it has the ipAddress and the region of
\* the entry, and a string where the struct has a number, or the reverse.
MistypeServerEntry(ipAddress) ==
    /\ ipAddress \in DOMAIN boltFile.serverEntries
    /\ boltFile.serverEntries[ipAddress].decodes
    /\ ~boltFile.serverEntries[ipAddress].Region.isNil
    /\ boltFile' = [boltFile EXCEPT !.serverEntries[ipAddress].decodes = FALSE]
    /\ lastOp' = [Did("MistypeServerEntry") EXCEPT !.ip = ipAddress]
    /\ UNCHANGED <<diskVars, clientVars, datastoreDB, openPC, importing, taken, promoted, crashImage>>

\* Stored bytes of the ranked vector are overwritten with garbage.
CorruptRankedServerEntries ==
    /\ rankedServerEntriesKey \in DOMAIN boltFile.rankedServerEntries
    /\ ~getRankedServerEntriesFails(boltFile)
    /\ boltFile' = setRankedServerEntries(boltFile, GarbageRankedServerEntries)
    /\ lastOp' = Did("CorruptRankedServerEntries")
    /\ UNCHANGED <<diskVars, clientVars, datastoreDB, openPC, importing, taken, promoted, crashImage>>

\* -------------------------------------------------- server entry filter memo

makeServerEntryFilterValue(config) == ToBytes(config.EgressRegion)

\* PromoteServerEntryTx inserting at the next-to-top rank, as a store does.
PromoteServerEntryTxNextToTop(file, config, ipAddress) ==
    IF BucketGet(file.serverEntries, ipAddress).isNil THEN file
    ELSE LET ranked == insertRankedServerEntry(file, ipAddress, 1)
         IN  [ranked EXCEPT !.keyValues =
                 BucketPut(@, DATA_STORE_LAST_SERVER_ENTRY_FILTER_KEY,
                           makeServerEntryFilterValue(config).b)]

\* PromoteServerEntryTx returning after the rank insert, the memo not written.
PromoteServerEntryTxNoMemo(file, config, ipAddress) ==
    IF BucketGet(file.serverEntries, ipAddress).isNil THEN file
    ELSE insertRankedServerEntry(file, ipAddress, 0)

\* The function of the transaction of PromoteServerEntry returns an error.
PromoteServerEntryTxFails(file, ipAddress) ==
    /\ ~BucketGet(file.serverEntries, ipAddress).isNil
    /\ insertRankedServerEntryFails(file)

\* PromoteServerEntryTx without the test that the entry is stored.
PromoteServerEntryTxUnknownEntry(file, config, ipAddress) ==
    IF insertRankedServerEntryFails(file) THEN file
    ELSE LET ranked == insertRankedServerEntry(file, ipAddress, 0)
         IN  [ranked EXCEPT !.keyValues =
                 BucketPut(@, DATA_STORE_LAST_SERVER_ENTRY_FILTER_KEY,
                           makeServerEntryFilterValue(config).b)]

\* The transaction of PromoteServerEntry: the file it commits.
PromoteServerEntryTx(file, config, ipAddress) ==
    IF BucketGet(file.serverEntries, ipAddress).isNil THEN file
    ELSE IF insertRankedServerEntryFails(file) THEN file
    ELSE LET ranked == insertRankedServerEntry(file, ipAddress, 0)
         IN  [ranked EXCEPT !.keyValues =
                 BucketPut(@, DATA_STORE_LAST_SERVER_ENTRY_FILTER_KEY,
                           makeServerEntryFilterValue(config).b)]

PromoteServerEntry(config, ipAddress) ==
    /\ boltFile' = IF dataStoreOpen THEN PromoteServerEntryTx(boltFile, config, ipAddress)
                   ELSE boltFile
    /\ promoted' = IF /\ dataStoreOpen
                      /\ ipAddress \in DOMAIN boltFile.serverEntries
                      /\ ~PromoteServerEntryTxFails(boltFile, ipAddress)
                   THEN [set |-> TRUE, region |-> config.EgressRegion,
                         ipAddress |-> ipAddress]
                   ELSE promoted
    /\ lastOp' = [Did("PromoteServerEntry") EXCEPT !.ip = ipAddress,
                              !.region = config.EgressRegion,
                              !.err = \/ ~dataStoreOpen
                                      \/ PromoteServerEntryTxFails(boltFile, ipAddress)]
    /\ UNCHANGED <<diskVars, clientVars, datastoreDB, openPC, importing, taken, crashImage>>

\* The bool hasServerEntryFilterChanged computes inside its view.
filterChanged(file, config) ==
    bytesCompare(BucketGet(file.keyValues, DATA_STORE_LAST_SERVER_ENTRY_FILTER_KEY),
                 makeServerEntryFilterValue(config)) # 0

hasServerEntryFilterChanged(config) ==
    /\ lastOp' = [Did("hasServerEntryFilterChanged") EXCEPT !.region = config.EgressRegion,
                              !.err = ~dataStoreOpen,
                              !.out = dataStoreOpen /\ filterChanged(boltFile, config)]
    /\ UNCHANGED <<diskVars, clientVars, datastoreDB, openPC, boltFile, importing, taken, promoted, crashImage>>

\* NewServerEntryIterator without a target server entry: the affinity flag it returns.
NewServerEntryIterator(config) ==
    /\ lastOp' = [Did("NewServerEntryIterator") EXCEPT !.region = config.EgressRegion,
                              !.err = ~dataStoreOpen,
                              !.out = dataStoreOpen /\ ~filterChanged(boltFile, config)]
    /\ UNCHANGED <<diskVars, clientVars, datastoreDB, openPC, boltFile, importing, taken, promoted, crashImage>>

\* --------------------------------------------------------------- iterator

\* The keys of the server entry bucket in the order of cursor.Last, Prev, ...
RECURSIVE CursorKeysReversed(_)
CursorKeysReversed(keys) ==
    IF keys = {} THEN <<>>
    ELSE LET last == CHOOSE k \in keys : \A o \in keys : o <= k
         IN  <<last>> \o CursorKeysReversed(keys \ {last})

\* The list the view of Reset builds: the ranked ids, then the keys of the
\* server entry bucket that are not ranked, last key first.
ResetView(file) ==
    LET ranked == getRankedServerEntries(file)
    IN  ranked \o CursorKeysReversed(
                     DOMAIN file.serverEntries \ {ranked[i] : i \in 1..Len(ranked)})

\* rand.Intn(n) at the turn i of the shuffle loop, for the random source
\* numbered seed: a value in 0..n-1. The sources 0 to 5 give a list of three
\* ids each of its six orders.
randIntn(seed, i, n) == (seed * (i + 2)) % n

\* One turn of the shuffle loop with the head shuffled as well.
ShuffleTurnWholeList(serverEntryIds, shuffleHeadLength, i, seed) ==
    LET j == randIntn(seed, i, i + 1)
    IN  [serverEntryIds EXCEPT ![i + 1] = serverEntryIds[j + 1],
                               ![j + 1] = serverEntryIds[i + 1]]

\* One turn of the shuffle loop of Reset, indices counted from 0 as in the
\* code: the id at i is swapped with the id at a random index between
\* shuffleHeadLength and i.
ShuffleTurn(serverEntryIds, shuffleHeadLength, i, seed) ==
    LET j == randIntn(seed, i, i + 1 - shuffleHeadLength) + shuffleHeadLength
    IN  [serverEntryIds EXCEPT ![i + 1] = serverEntryIds[j + 1],
                               ![j + 1] = serverEntryIds[i + 1]]

\* The turns of the shuffle loop of Reset for i from high down to low: the
\* upper half of the turns is computed, then the lower half on what it left.
RECURSIVE ShuffleLoop(_, _, _, _, _)
ShuffleLoop(serverEntryIds, shuffleHeadLength, high, low, seed) ==
    IF high < low THEN serverEntryIds
    ELSE IF high = low THEN ShuffleTurn(serverEntryIds, shuffleHeadLength, high, seed)
    ELSE LET middle == (high + low) \div 2
         IN  CHOOSE shuffled \in
                 {ShuffleLoop(upper, shuffleHeadLength, middle, low, seed) :
                     upper \in {ShuffleLoop(serverEntryIds, shuffleHeadLength,
                                            high, middle + 1, seed)}} :
                 TRUE

\* What the shuffle loop of Reset can leave, one list for each random source.
Shuffles(serverEntryIds, shuffleHeadLength) ==
    {ShuffleLoop(serverEntryIds, shuffleHeadLength, Len(serverEntryIds) - 1,
                 shuffleHeadLength, seed) : seed \in 0..MaxSeed}

\* NewServerEntryIterator without a target server entry, with the Reset it
\* calls; and Reset of the iterator in use when there is one. out is the
\* boolean NewServerEntryIterator returns with the iterator.
ServerEntryIteratorReset(config, tunnelPoolSize) ==
    /\ \E plan \in Shuffles(ResetView(boltFile), tunnelPoolSize) :
          iterator' = IF dataStoreOpen /\ ~getRankedServerEntriesFails(boltFile)
                      THEN [NoIterator EXCEPT
                               !.set = TRUE, !.config = config,
                               !.shuffleHeadLength = tunnelPoolSize,
                               !.serverEntryIds = plan,
                               !.stored = boltFile.serverEntries]
                      ELSE NoIterator
    /\ lastOp' = [Did("ServerEntryIterator.Reset") EXCEPT
                     !.region = config.EgressRegion,
                     !.n = tunnelPoolSize,
                     !.out = /\ dataStoreOpen
                             /\ ~getRankedServerEntriesFails(boltFile)
                             /\ ~filterChanged(boltFile, config),
                     !.err = ~dataStoreOpen \/ getRankedServerEntriesFails(boltFile)]
    /\ UNCHANGED <<diskVars, inflight, slices, startCall, conn, dial, datastoreDB, openPC, boltFile,
                   importing, taken, promoted, crashImage>>

\* var serverEntry *protocol.ServerEntry, before the first json.Unmarshal.
NilServerEntry == [isNil |-> TRUE, IpAddress |-> 0, Region |-> <<>>]

\* json.Unmarshal(data, &serverEntry) of the stored bytes of the entry with the
\* key ipAddress. Bytes that are not JSON leave serverEntry as it is. Otherwise
\* the struct serverEntry points to is used, or a new one when it is nil, and
\* the fields the JSON has are set in it; the others keep what they hold. A
\* value of the wrong type gives an error after the other fields are set.
jsonUnmarshalServerEntry(serverEntry, ipAddress, data) ==
    IF ~data.decodes /\ data.Region.isNil
    THEN [serverEntry |-> serverEntry, err |-> TRUE]
    ELSE [serverEntry |->
             [isNil |-> FALSE,
              IpAddress |-> ipAddress,
              Region |-> IF data.Region.isNil THEN serverEntry.Region ELSE data.Region.b],
          err |-> ~data.decodes]

\* The loop of Next in standard mode, from the index serverEntryIndex on, with
\* the variable serverEntry that is declared before the loop.
RECURSIVE NextLoop(_, _, _, _, _)
NextLoop(file, serverEntryIds, serverEntryIndex, serverEntry, EgressRegion) ==
    IF serverEntryIndex >= Len(serverEntryIds)
    THEN [serverEntryIndex |-> serverEntryIndex, serverEntry |-> NilServerEntry]
    ELSE LET serverEntryId == serverEntryIds[serverEntryIndex + 1]
             found == serverEntryId \in DOMAIN file.serverEntries
             decoded == jsonUnmarshalServerEntry(
                            serverEntry, serverEntryId, file.serverEntries[serverEntryId])
         IN  IF ~found
             THEN NextLoop(file, serverEntryIds, serverEntryIndex + 1, serverEntry,
                           EgressRegion)
             ELSE IF decoded.err
             THEN NextLoop(file, serverEntryIds, serverEntryIndex + 1,
                           decoded.serverEntry, EgressRegion)
             ELSE IF EgressRegion = <<>> \/ decoded.serverEntry.Region = EgressRegion
             THEN [serverEntryIndex |-> serverEntryIndex + 1,
                   serverEntry |-> decoded.serverEntry]
             ELSE NextLoop(file, serverEntryIds, serverEntryIndex + 1,
                           decoded.serverEntry, EgressRegion)

\* The protocols a server entry can declare, and those of them that carry
\* tactics requests.
TunnelProtocols == {"OSSH", "UNFRONTED-MEEK-OSSH"}

TacticsProtocols == {"UNFRONTED-MEEK-OSSH"}

\* What config.TargetServerEntry can hold: text that DecodeServerEntry rejects,
\* or the encoding of a server entry with its region and its protocols.
TargetServerEntries ==
    [decodes : BOOLEAN, IpAddress : {NumServerIds + 1},
     Region : {<<67, 65>>, <<85, 83>>},
     protocols : {{"OSSH"}, TunnelProtocols}]

\* serverEntry.GetSupportedProtocols under limitTunnelProtocols.
GetSupportedProtocols(serverEntry, limitTunnelProtocols) ==
    IF limitTunnelProtocols = {} THEN serverEntry.protocols
    ELSE serverEntry.protocols \cap limitTunnelProtocols

GetSupportedTacticsProtocols(serverEntry) == serverEntry.protocols \cap TacticsProtocols

\* The tests of newTargetServerEntryIterator without the one on EgressRegion.
targetServerEntryErrorAnyRegion(config, isTactics) ==
    LET serverEntry == config.TargetServerEntry
    IN  \/ ~serverEntry.decodes
        \/ isTactics /\ GetSupportedTacticsProtocols(serverEntry) = {}
        \/ /\ ~isTactics
           /\ config.LimitTunnelProtocols # {}
           /\ GetSupportedProtocols(serverEntry, config.LimitTunnelProtocols) = {}

\* newTargetServerEntryIterator returns an error.
targetServerEntryError(config, isTactics) ==
    LET serverEntry == config.TargetServerEntry
    IN  \/ ~serverEntry.decodes
        \/ isTactics /\ GetSupportedTacticsProtocols(serverEntry) = {}
        \/ /\ ~isTactics
           /\ \/ config.EgressRegion # <<>> /\ serverEntry.Region # config.EgressRegion
              \/ /\ config.LimitTunnelProtocols # {}
                 /\ GetSupportedProtocols(serverEntry, config.LimitTunnelProtocols) = {}

\* NewServerEntryIterator (isTactics FALSE) and NewTacticsServerEntryIterator
\* (isTactics TRUE) with a config whose TargetServerEntry is not empty. out is
\* the boolean that NewServerEntryIterator returns.
newTargetServerEntryIterator(config, isTactics) ==
    /\ iterator' = IF targetServerEntryError(config, isTactics) THEN NoIterator
                   ELSE [NoIterator EXCEPT
                            !.set = TRUE,
                            !.isTacticsServerEntryIterator = isTactics,
                            !.isTargetServerEntryIterator = TRUE,
                            !.hasNextTargetServerEntry = TRUE,
                            !.targetServerEntry =
                                [IpAddress |-> config.TargetServerEntry.IpAddress,
                                 Region |-> config.TargetServerEntry.Region]]
    /\ lastOp' = [Did("newTargetServerEntryIterator") EXCEPT
                     !.config = config,
                     !.flag = isTactics,
                     !.out = FALSE,
                     !.err = targetServerEntryError(config, isTactics)]
    /\ UNCHANGED <<diskVars, inflight, slices, startCall, conn, dial, datastoreDB, openPC, boltFile,
                   importing, taken, promoted, crashImage>>

\* Reset of an iterator for a target server entry.
TargetServerEntryIteratorReset ==
    /\ iterator.set
    /\ iterator.isTargetServerEntryIterator
    /\ iterator' = [iterator EXCEPT !.serverEntryIds = <<>>, !.serverEntryIndex = 0,
                                    !.hasNextTargetServerEntry = TRUE,
                                    !.yielded = <<>>, !.done = FALSE]
    /\ lastOp' = Did("ServerEntryIterator.Reset")
    /\ UNCHANGED <<diskVars, inflight, slices, startCall, conn, dial, datastoreDB, openPC, boltFile,
                   importing, taken, promoted, crashImage>>

\* Next of an iterator for a target server entry.
TargetServerEntryIteratorNext ==
    /\ iterator.set
    /\ iterator.isTargetServerEntryIterator
    /\ iterator' = [iterator EXCEPT
                       !.hasNextTargetServerEntry = FALSE,
                       !.yielded = IF iterator.hasNextTargetServerEntry
                                   THEN Append(@, iterator.targetServerEntry.IpAddress)
                                   ELSE @,
                       !.done = ~iterator.hasNextTargetServerEntry]
    /\ lastOp' = IF iterator.hasNextTargetServerEntry
                 THEN [Did("ServerEntryIterator.Next") EXCEPT
                          !.ip = iterator.targetServerEntry.IpAddress,
                          !.region = iterator.targetServerEntry.Region,
                          !.out = TRUE]
                 ELSE [Did("ServerEntryIterator.Next") EXCEPT
                          !.n = IF lastOp.op = "ServerEntryIterator.Next" /\ ~lastOp.out
                                THEN 1 ELSE 0]
    /\ UNCHANGED <<diskVars, inflight, slices, startCall, conn, dial, datastoreDB, openPC, boltFile,
                   importing, taken, promoted, crashImage>>

\* The file a view of Next would read had the iterator kept the transaction
\* of its Reset open: the server entries as they were then.
NextViewOfReset(file, serverEntryIterator) ==
    [file EXCEPT !.serverEntries = serverEntryIterator.stored]

\* The file the views of Next read: each begins and ends inside Next, and
\* reads what is committed when Next runs.
NextView(file, serverEntryIterator) == file

\* Next of an iterator that is neither for a target server entry nor for
\* tactics. With the datastore closed the view of the first id fails, Next
\* returns its error and the iterator is closed.
ServerEntryIteratorNext ==
    /\ iterator.set
    /\ ~iterator.isTargetServerEntryIterator
    /\ ~iterator.done
    /\ LET more == iterator.serverEntryIndex < Len(iterator.serverEntryIds)
           r == NextLoop(NextView(boltFile, iterator), iterator.serverEntryIds,
                         iterator.serverEntryIndex,
                         NilServerEntry, iterator.config.EgressRegion)
       IN  IF more /\ ~dataStoreOpen
           THEN /\ iterator' = [iterator EXCEPT !.serverEntryIds = <<>>,
                                                !.serverEntryIndex = 0]
                /\ lastOp' = [Did("ServerEntryIterator.Next") EXCEPT !.err = TRUE]
           ELSE /\ iterator' = [iterator EXCEPT
                                   !.serverEntryIndex = r.serverEntryIndex,
                                   !.yielded = IF r.serverEntry.isNil THEN @
                                               ELSE Append(@, r.serverEntry.IpAddress),
                                   !.done = r.serverEntry.isNil]
                /\ lastOp' = [Did("ServerEntryIterator.Next") EXCEPT
                                 !.ip = r.serverEntry.IpAddress,
                                 !.region = r.serverEntry.Region,
                                 !.out = ~r.serverEntry.isNil]
    /\ UNCHANGED <<diskVars, inflight, slices, startCall, conn, dial, datastoreDB, openPC, boltFile,
                   importing, taken, promoted, crashImage>>

\* Close of the iterator; the caller drops it.
ServerEntryIteratorClose ==
    /\ iterator.set
    /\ iterator' = NoIterator
    /\ lastOp' = Did("ServerEntryIterator.Close")
    /\ UNCHANGED <<diskVars, inflight, slices, startCall, conn, dial, datastoreDB, openPC, boltFile,
                   importing, taken, promoted, crashImage>>

\* ------------------------------------------------------ persistent stat queue

\* TakeOutScan without the test of the record's state.
RECURSIVE TakeOutScanAnyState(_, _, _, _)
TakeOutScanAnyState(keys, bucket, count, maxCount) ==
    IF keys = <<>> THEN <<>>
    ELSE IF count >= maxCount THEN <<>>
    ELSE IF ~jsonUnmarshalOK(Head(keys))
         THEN TakeOutScanAnyState(Tail(keys), bucket, count, maxCount)
    ELSE <<Head(keys)>> \o TakeOutScanAnyState(Tail(keys), bucket, count + 1, maxCount)

\* The loop of TakeOutUnreportedPersistentStats over one bucket, keys in cursor
\* order: the keys appended to stats[statType].
RECURSIVE TakeOutScan(_, _, _, _)
TakeOutScan(keys, bucket, count, maxCount) ==
    IF keys = <<>> THEN <<>>
    ELSE IF count >= maxCount THEN <<>>
    ELSE IF ~jsonUnmarshalOK(Head(keys))
         THEN TakeOutScan(Tail(keys), bucket, count, maxCount)
    ELSE IF bytesCompare(ToBytes(bucket[Head(keys)]),
                         ToBytes(persistentStatStateUnreported)) = 0
         THEN <<Head(keys)>> \o TakeOutScan(Tail(keys), bucket, count + 1, maxCount)
    ELSE TakeOutScan(Tail(keys), bucket, count, maxCount)

\* bucket.Put(key, value) for every key of a list.
RECURSIVE PutAll(_, _, _)
PutAll(bucket, keys, value) ==
    IF keys = <<>> THEN bucket
    ELSE PutAll(BucketPut(bucket, Head(keys), value), Tail(keys), value)

\* bucket.Delete(key) for every key of a list.
RECURSIVE DeleteAll(_, _)
DeleteAll(bucket, keys) ==
    IF keys = <<>> THEN bucket
    ELSE DeleteAll(BucketDelete(bucket, Head(keys)), Tail(keys))

\* stats[statType] of a Go map: nil (no keys) when the type is not in the map.
StatsOf(stats, statType) ==
    IF statType \in DOMAIN stats THEN stats[statType] ELSE <<>>

\* The transaction of TakeOutUnreportedPersistentStats over the stat types from
\* index i on: the file it commits and the stats map it returns.
RECURSIVE TakeOutTx(_, _, _, _, _)
TakeOutTx(file, stats, i, count, maxCount) ==
    IF i > Len(persistentStatTypes) THEN [file |-> file, stats |-> stats]
    ELSE LET statType == persistentStatTypes[i]
             bucket == file[statType]
             found == TakeOutScan(CursorKeys(DOMAIN bucket), bucket, count, maxCount)
             stats2 == IF found = <<>> THEN stats
                       ELSE [t \in (DOMAIN stats) \cup {statType} |->
                                IF t = statType THEN found ELSE stats[t]]
             file2 == [file EXCEPT ![statType] =
                          PutAll(@, StatsOf(stats2, statType), persistentStatStateReporting)]
         IN  TakeOutTx(file2, stats2, i + 1, count + Len(found), maxCount)

\* PutBackTx writing the state the records already have.
RECURSIVE PutBackTxReporting(_, _, _)
PutBackTxReporting(file, stats, i) ==
    IF i > Len(persistentStatTypes) THEN file
    ELSE LET statType == persistentStatTypes[i]
         IN  PutBackTxReporting(
                [file EXCEPT ![statType] =
                    PutAll(@, StatsOf(stats, statType), persistentStatStateReporting)],
                stats, i + 1)

\* The keys of a list that have a record in the bucket.
KeysPresent(bucket, keys) == SelectSeq(keys, LAMBDA key : key \in DOMAIN bucket)

\* PutBackTx putting only the keys that have a record.
RECURSIVE PutBackTxExisting(_, _, _)
PutBackTxExisting(file, stats, i) ==
    IF i > Len(persistentStatTypes) THEN file
    ELSE LET statType == persistentStatTypes[i]
         IN  PutBackTxExisting(
                [file EXCEPT ![statType] =
                    PutAll(@, KeysPresent(@, StatsOf(stats, statType)),
                           persistentStatStateUnreported)],
                stats, i + 1)

\* Some key of the stats map has no record in the bucket of its type.
NamesAbsentKey(file, stats) ==
    \E i \in 1..Len(persistentStatTypes) :
        \E j \in 1..Len(StatsOf(stats, persistentStatTypes[i])) :
            StatsOf(stats, persistentStatTypes[i])[j]
                \notin DOMAIN file[persistentStatTypes[i]]

\* The transaction of PutBackUnreportedPersistentStats.
RECURSIVE PutBackTx(_, _, _)
PutBackTx(file, stats, i) ==
    IF i > Len(persistentStatTypes) THEN file
    ELSE LET statType == persistentStatTypes[i]
         IN  PutBackTx(
                [file EXCEPT ![statType] =
                    PutAll(@, StatsOf(stats, statType), persistentStatStateUnreported)],
                stats, i + 1)

\* ClearTx deleting every record of the bucket, as DeleteSLOKs does.
RECURSIVE ClearTxWholeBucket(_, _, _)
ClearTxWholeBucket(file, stats, i) ==
    IF i > Len(persistentStatTypes) THEN file
    ELSE LET statType == persistentStatTypes[i]
         IN  ClearTxWholeBucket(
                [file EXCEPT ![statType] = DeleteAll(@, CursorKeys(DOMAIN @))],
                stats, i + 1)

\* The transaction of ClearReportedPersistentStats.
RECURSIVE ClearTx(_, _, _)
ClearTx(file, stats, i) ==
    IF i > Len(persistentStatTypes) THEN file
    ELSE LET statType == persistentStatTypes[i]
         IN  ClearTx(
                [file EXCEPT ![statType] = DeleteAll(@, StatsOf(stats, statType))],
                stats, i + 1)

\* ResetTx collecting no keys: nothing is rewritten.
ResetTxNoKeys(file, i) == file

\* The transaction of resetAllPersistentStatsToUnreported.
RECURSIVE ResetTx(_, _)
ResetTx(file, i) ==
    IF i > Len(persistentStatTypes) THEN file
    ELSE LET statType == persistentStatTypes[i]
             resetKeys == CursorKeys(DOMAIN file[statType])
         IN  ResetTx(
                [file EXCEPT ![statType] =
                    PutAll(@, resetKeys, persistentStatStateUnreported)],
                i + 1)

\* The inner loop of CountUnreportedPersistentStats over one bucket.
RECURSIVE CountScan(_, _)
CountScan(keys, bucket) ==
    IF keys = <<>> THEN 0
    ELSE IF bytesCompare(ToBytes(bucket[Head(keys)]),
                         ToBytes(persistentStatStateUnreported)) = 0
         THEN 1
    ELSE CountScan(Tail(keys), bucket)

\* The view of CountUnreportedPersistentStats over the stat types from index i on.
RECURSIVE CountUnreportedView(_, _)
CountUnreportedView(file, i) ==
    IF i > Len(persistentStatTypes) THEN 0
    ELSE LET bucket == file[persistentStatTypes[i]]
         IN  CountScan(CursorKeys(DOMAIN bucket), bucket) + CountUnreportedView(file, i + 1)

\* The stat buckets of a file, by stat type.
StatBuckets(file) ==
    [t \in {persistentStatTypes[i] : i \in 1..Len(persistentStatTypes)} |-> file[t]]

\* common.Contains(persistentStatTypes, statType)
IsPersistentStatType(statType) ==
    \E i \in 1..Len(persistentStatTypes) : persistentStatTypes[i] = statType

StorePersistentStatFails(statType) == ~IsPersistentStatType(statType) \/ ~dataStoreOpen

StorePersistentStat(statType, stat) ==
    /\ boltFile' = IF StorePersistentStatFails(statType) THEN boltFile
                   ELSE [boltFile EXCEPT ![statType] =
                            BucketPut(@, stat, persistentStatStateUnreported)]
    /\ lastOp' = [Did("StorePersistentStat") EXCEPT !.stats = [t \in {statType} |-> <<stat>>],
                              !.err = StorePersistentStatFails(statType)]
    /\ crashImage' = NoCrashImage
    /\ UNCHANGED <<diskVars, clientVars, datastoreDB, openPC, importing, taken, promoted>>

CountUnreportedPersistentStats ==
    /\ lastOp' = [Did("CountUnreportedPersistentStats") EXCEPT !.err = ~dataStoreOpen,
                              !.n = IF dataStoreOpen THEN CountUnreportedView(boltFile, 1)
                                    ELSE 0]
    /\ UNCHANGED <<diskVars, clientVars, datastoreDB, openPC, boltFile, importing, taken, promoted, crashImage>>

\* The operations a take out records in prev when it follows them.
FollowedOps == {"TakeOutUnreportedPersistentStats", "PutBackUnreportedPersistentStats"}

\* A caller holding no stats takes out up to maxCount and keeps what it got.
TakeOutUnreportedPersistentStats(caller, maxCount) ==
    /\ taken[caller] = EmptyStats
    /\ LET tx == TakeOutTx(boltFile, EmptyStats, 1, 0, maxCount)
       IN  /\ boltFile' = IF dataStoreOpen THEN tx.file ELSE boltFile
           /\ taken' = IF dataStoreOpen THEN [taken EXCEPT ![caller] = tx.stats] ELSE taken
           /\ lastOp' = [Did("TakeOutUnreportedPersistentStats") EXCEPT !.n = maxCount,
                                     !.prev = IF lastOp.op \in FollowedOps
                                              THEN lastOp.op ELSE "other",
                                     !.err = ~dataStoreOpen,
                                     !.stats = IF dataStoreOpen THEN tx.stats ELSE EmptyStats]
    /\ crashImage' = IF dataStoreOpen /\ crashImage.phase = "reopened"
                     THEN [crashImage EXCEPT !.phase = "retaken"]
                     ELSE NoCrashImage
    /\ UNCHANGED <<diskVars, clientVars, datastoreDB, openPC, importing, promoted>>

\* A caller puts back the stats it holds (the request failed).
PutBackUnreportedPersistentStats(caller) ==
    /\ taken[caller] # EmptyStats
    /\ boltFile' = IF dataStoreOpen THEN PutBackTx(boltFile, taken[caller], 1) ELSE boltFile
    /\ taken' = [taken EXCEPT ![caller] = EmptyStats]
    /\ lastOp' = [Did("PutBackUnreportedPersistentStats") EXCEPT
                     !.stats = taken[caller], !.err = ~dataStoreOpen,
                     !.flag = dataStoreOpen /\ NamesAbsentKey(boltFile, taken[caller])]
    /\ crashImage' = NoCrashImage
    /\ UNCHANGED <<diskVars, clientVars, datastoreDB, openPC, importing, promoted>>

\* A caller clears the stats it holds (the request succeeded).
ClearReportedPersistentStats(caller) ==
    /\ taken[caller] # EmptyStats
    /\ boltFile' = IF dataStoreOpen THEN ClearTx(boltFile, taken[caller], 1) ELSE boltFile
    /\ taken' = [taken EXCEPT ![caller] = EmptyStats]
    /\ lastOp' = [Did("ClearReportedPersistentStats") EXCEPT !.stats = taken[caller], !.err = ~dataStoreOpen]
    /\ crashImage' = NoCrashImage
    /\ UNCHANGED <<diskVars, clientVars, datastoreDB, openPC, importing, promoted>>

\* ---------------------------------------------------------------- lifecycle

\* The number of times OpenDataStore tries to attach the file.
OpenRetries == 3

tunnelStatsBucket == "tunnelStats"

\* The buckets OpenDataStore creates when they are missing.
requiredBuckets ==
    {"serverEntries", "rankedServerEntries", "splitTunnelRouteETags",
     "splitTunnelRouteData", "urlETags", "keyValues", tunnelStatsBucket,
     "remoteServerListStats", "SLOKs", "tactics", "speedTestSamples"}

\* bolt.Open returns an error: the file is not a bolt file, or another process
\* or a bolt.DB of this process that was never closed holds its lock for the
\* whole Timeout, or there is no file and none can be created.
boltOpenFails(d) ==
    \/ d.file = "badMeta"
    \/ d.file = "locked"
    \/ d.file # "absent" /\ d.leaked
    \/ d.file = "absent" /\ ~d.dirWritable

\* boltOpenCreates starting every file anew.
boltOpenTruncates(st) ==
    [st EXCEPT !.disk.file = "valid", !.disk.buckets = {}, !.contents = EmptyFile]

\* The file after a bolt.Open that returned no error: created, with no bucket,
\* when there was none.
boltOpenCreates(st) ==
    IF st.disk.file = "absent"
    THEN [st EXCEPT !.disk.file = "valid", !.disk.buckets = {}, !.contents = EmptyFile]
    ELSE st

\* tx.SynchronousCheck returns an error: the pages of the file are inconsistent.
SynchronousCheckFails(d) == d.file = "badPages"

\* osRemove leaving the file where it is.
osRemoveNothing(st) == st

\* os.Remove(filename), its error ignored: the file goes when there is one and
\* its directory can be written.
osRemove(st) ==
    IF st.disk.file # "absent" /\ st.disk.dirWritable
    THEN [st EXCEPT !.disk.file = "absent", !.disk.buckets = {}, !.disk.leaked = FALSE,
                    !.contents = EmptyFile, !.removed = TRUE]
    ELSE st

\* The retry loop of OpenDataStore from the attempt numbered retry on: the disk
\* and the contents it leaves, whether err is set after it, the attempts made.
RECURSIVE OpenAttempts(_, _)
OpenAttempts(st, retry) ==
    IF retry >= OpenRetries THEN [st EXCEPT !.err = TRUE, !.attempts = retry]
    ELSE IF boltOpenFails(st.disk) THEN OpenAttempts(osRemove(st), retry + 1)
    ELSE IF SynchronousCheckFails(boltOpenCreates(st).disk)
         THEN OpenAttempts(osRemove(boltOpenCreates(st)), retry + 1)
    ELSE [boltOpenCreates(st) EXCEPT !.err = FALSE, !.attempts = retry + 1]

\* The two updates of OpenDataStore on the attached file: every required bucket
\* is created if missing, then the tunnelStats bucket is deleted.
CreateBuckets(buckets) == (buckets \cup requiredBuckets) \ {tunnelStatsBucket}

\* existingDBCheck letting every call through.
existingDBCheckSkipped(db) == FALSE

\* OpenDataStore returns "db already open".
existingDBCheck(db) == db # "nil"

\* What can fail in OpenDataStore once the file is attached: nothing; a
\* CreateBucketIfNotExists or the commit of the first update; tx.DeleteBucket
\* in the second update; the commit of the second update.
OpenFailures == {"none", "createBuckets", "DeleteBucket", "deleteBucketUpdate"}

\* The buckets of the file when OpenDataStore is done with its two updates.
OpenBuckets(buckets, failure) ==
    IF failure = "createBuckets" THEN buckets
    ELSE IF failure = "none" THEN CreateBuckets(buckets)
    ELSE buckets \cup requiredBuckets

\* OpenDataStore returns the error of one of its two updates.
OpenUpdateFails(failure) == failure \in {"createBuckets", "deleteBucketUpdate"}

\* OpenDataStore up to the publication of the handle (lines 70-169), with the
\* failure its updates meet; the caller keeps datastoreInitalizeMutex until the
\* reset below is done. When an update fails OpenDataStore returns, and newDB is
\* neither closed nor published.
OpenDataStoreFailing(failure) ==
    /\ openPC = "idle"
    /\ LET st == OpenAttempts([disk |-> disk, contents |-> boltFile, err |-> FALSE,
                               attempts |-> 0, removed |-> FALSE], 0)
           failed == st.err \/ OpenUpdateFails(failure)
       IN  IF existingDBCheck(datastoreDB)
           THEN /\ lastOp' = [Did("OpenDataStore") EXCEPT !.err = TRUE]
                /\ UNCHANGED <<datastoreDB, openPC, boltFile, disk, attached>>
           ELSE /\ lastOp' = [Did("OpenDataStore") EXCEPT !.err = failed,
                                     !.n = st.attempts, !.flag = st.removed,
                                     !.config = IF st.err THEN "bolt.Open" ELSE failure]
                /\ boltFile' = st.contents
                /\ disk' = IF st.err THEN st.disk
                           ELSE [st.disk EXCEPT
                                    !.buckets = OpenBuckets(@, failure),
                                    !.leaked = OpenUpdateFails(failure)]
                /\ datastoreDB' = IF failed THEN datastoreDB ELSE "open"
                /\ openPC' = IF failed THEN "idle" ELSE "reset"
                /\ attached' = IF failed THEN attached ELSE attached + 1
    /\ UNCHANGED <<clientVars, importing, taken, promoted, crashImage>>

\* OpenDataStore with no failure in its updates.
OpenDataStore == OpenDataStoreFailing("none")

\* The rest of OpenDataStore with the error of the reset returned: the handle
\* is withdrawn and OpenDataStore returns the error.
OpenDataStoreResetFatal(fails) ==
    /\ openPC = "reset"
    /\ boltFile' = IF dataStoreOpen /\ ~fails THEN ResetTx(boltFile, 1) ELSE boltFile
    /\ openPC' = "idle"
    /\ datastoreDB' = IF fails THEN "nil" ELSE datastoreDB
    /\ attached' = IF fails /\ dataStoreOpen THEN attached - 1 ELSE attached
    /\ lastOp' = [Did("resetAllPersistentStatsToUnreported") EXCEPT
                     !.out = fails, !.err = fails]
    /\ crashImage' = IF crashImage.phase = "crashed"
                     THEN [crashImage EXCEPT !.phase = "reopened"]
                     ELSE NoCrashImage
    /\ UNCHANGED <<disk, clientVars, importing, taken, promoted>>

\* The rest of OpenDataStore: resetAllPersistentStatsToUnreported, which fails
\* or not, its error dropped; then return nil.
OpenDataStoreResetFailing(fails) ==
    /\ openPC = "reset"
    /\ boltFile' = IF dataStoreOpen /\ ~fails THEN ResetTx(boltFile, 1) ELSE boltFile
    /\ openPC' = "idle"
    /\ lastOp' = [Did("resetAllPersistentStatsToUnreported") EXCEPT
                     !.out = fails, !.err = FALSE]
    /\ crashImage' = IF crashImage.phase = "crashed"
                     THEN [crashImage EXCEPT !.phase = "reopened"]
                     ELSE NoCrashImage
    /\ UNCHANGED <<diskVars, clientVars, datastoreDB, importing, taken, promoted>>

\* The rest of OpenDataStore with a reset that does not fail.
OpenDataStoreReset == OpenDataStoreResetFailing(FALSE)

\* dbAfterClose with the bolt.DB left open.
dbAfterCloseLeftOpen(db) == db

\* datastoreDB.Close() as the callers see it that have read the handle and not
\* yet begun their transaction: the bolt.DB they hold is closed.
dbAfterClose(db) == IF db = "live" THEN "closed" ELSE db

CloseDataStore ==
    /\ openPC = "idle"
    /\ datastoreDB' = "nil"
    /\ attached' = IF dataStoreOpen THEN attached - 1 ELSE attached
    /\ inflight' = IF dataStoreOpen
                   THEN [c \in Callers |-> [inflight[c] EXCEPT !.db = dbAfterClose(@)]]
                   ELSE inflight
    /\ slices' = IF dataStoreOpen THEN [slices EXCEPT !.unmapped = TRUE] ELSE slices
    /\ lastOp' = [Did("CloseDataStore") EXCEPT !.flag = dataStoreOpen]
    /\ UNCHANGED <<disk, iterator, startCall, conn, dial, openPC, boltFile, importing,
                   taken, promoted, crashImage>>

\* The process dies: the committed file stays, everything in memory is gone.
Crash ==
    /\ datastoreDB' = "nil"
    /\ openPC' = "idle"
    /\ importing' = NotImporting
    /\ taken' = [c \in Callers |-> EmptyStats]
    /\ crashImage' = [phase |-> "crashed", buckets |-> StatBuckets(boltFile)]
    /\ lastOp' = Did("Crash")
    /\ attached' = 0
    /\ inflight' = NoneInflight
    /\ slices' = NoSlice
    /\ iterator' = NoIterator
    /\ startCall' = NoStartCall
    /\ conn' = NoConn
    /\ dial' = NoDial
    /\ disk' = [disk EXCEPT !.leaked = FALSE]
    /\ UNCHANGED <<boltFile, promoted>>

\* The name a call is reported under.
TxName(update) == IF update THEN "dataStoreUpdate" ELSE "dataStoreView"

\* The first half of dataStoreView / dataStoreUpdate: the handle is read under
\* datastoreReferenceMutex, and the call returns "database not open" when it
\* is nil.
dataStoreBegin(caller, update) ==
    /\ inflight[caller].pc = "idle"
    /\ IF datastoreDB = "nil"
       THEN /\ lastOp' = [Did(TxName(update)) EXCEPT !.err = TRUE, !.n = caller]
            /\ UNCHANGED inflight
       ELSE /\ lastOp' = [Did("dataStoreBegin") EXCEPT !.n = caller]
            /\ inflight' = [inflight EXCEPT ![caller] =
                               [pc |-> "hasDB", db |-> "live", update |-> update]]
    /\ UNCHANGED <<diskVars, slices, iterator, startCall, conn, dial, datastoreDB, openPC, boltFile,
                   importing, taken, promoted, crashImage>>

\* db.View / db.Update on a bolt.DB that has been closed return an error
\* without calling fn.
boltBeginFails(db) == db # "live"

\* The value the update of a caller puts.
CallerValue(caller) == <<48 + caller>>

\* The second half: db.View(fn) or db.Update(fn) on the handle that was read.
\* The update puts a value of the caller at the key "lastConnected"; the view
\* gets the value at that key.
dataStoreRun(caller) ==
    /\ inflight[caller].pc = "hasDB"
    /\ inflight' = [inflight EXCEPT ![caller] = NoneInflight[caller]]
    /\ lastOp' = [Did(TxName(inflight[caller].update)) EXCEPT
                     !.err = boltBeginFails(inflight[caller].db),
                     !.out = ~boltBeginFails(inflight[caller].db),
                     !.n = caller]
    /\ boltFile' = IF ~boltBeginFails(inflight[caller].db) /\ inflight[caller].update
                   THEN [boltFile EXCEPT !.keyValues =
                           BucketPut(@, DATA_STORE_LAST_CONNECTED_KEY, CallerValue(caller))]
                   ELSE boltFile
    /\ UNCHANGED <<diskVars, slices, iterator, startCall, conn, dial, datastoreDB, openPC,
                   importing, taken, promoted, crashImage>>

\* The file is damaged while no bolt.DB is attached: bolt.Open rejects it
\* ("badMeta", as for random bytes) or the consistency check does ("badPages").
CorruptFile(kind) ==
    /\ attached = 0
    /\ disk.file = "valid"
    /\ disk' = [disk EXCEPT !.file = kind, !.buckets = {}]
    /\ boltFile' = EmptyFile
    /\ lastOp' = Did("CorruptFile")
    /\ UNCHANGED <<clientVars, attached, datastoreDB, openPC, importing, taken, promoted,
                   crashImage>>

\* Another process takes the lock of the file, which this process has not
\* open, and keeps it; or it releases the lock. It writes nothing.
OtherProcessLocks(locks) ==
    /\ attached = 0
    /\ disk.file = (IF locks THEN "valid" ELSE "locked")
    /\ disk' = [disk EXCEPT !.file = IF locks THEN "locked" ELSE "valid"]
    /\ lastOp' = Did("OtherProcessLocks")
    /\ UNCHANGED <<clientVars, attached, datastoreDB, openPC, boltFile, importing, taken,
                   promoted, crashImage>>

\* The directory of the file is made read-only, or writable again.
SetDirectoryWritable(writable) ==
    /\ disk.dirWritable # writable
    /\ disk' = [disk EXCEPT !.dirWritable = writable]
    /\ lastOp' = Did("SetDirectoryWritable")
    /\ UNCHANGED <<clientVars, attached, datastoreDB, openPC, boltFile, importing, taken,
                   promoted, crashImage>>

\* -------------------------------------------------------------- cache slots

\* One dataStoreUpdate that puts value at key in one bucket (SetUrlETag,
\* SetKeyValue, setBucketValue).
PutValue(op, bucketName, key, value) ==
    /\ boltFile' = IF dataStoreOpen
                   THEN [boltFile EXCEPT ![bucketName] = BucketPut(@, key, value)]
                   ELSE boltFile
    /\ lastOp' = [Did(op) EXCEPT !.err = ~dataStoreOpen]
    /\ UNCHANGED <<diskVars, clientVars, datastoreDB, openPC, importing, taken, promoted, crashImage>>

\* Which of the two bucket.Put calls of SetSplitTunnelRoutes return an error.
PutFailures == {"none", "etag", "data", "both"}

\* The transaction of SetSplitTunnelRoutes: err is assigned by the Put of the
\* etag and assigned again by the Put of the data, and the function returns
\* the second; the Update commits what was put unless that one is an error.
SetSplitTunnelRoutesTx(file, region, etag, data, failure) ==
    LET etagPut == IF failure \in {"etag", "both"} THEN file
                   ELSE [file EXCEPT
                            !.splitTunnelRouteETags = BucketPut(@, region, etag)]
        dataPut == IF failure \in {"data", "both"} THEN etagPut
                   ELSE [etagPut EXCEPT
                            !.splitTunnelRouteData = BucketPut(@, region, data)]
        err == failure \in {"data", "both"}
    IN  [file |-> IF err THEN file ELSE dataPut, err |-> err]

SetSplitTunnelRoutesFailing(region, etag, data, failure) ==
    LET tx == SetSplitTunnelRoutesTx(boltFile, region, etag, data, failure)
    IN  /\ boltFile' = IF dataStoreOpen THEN tx.file ELSE boltFile
        /\ lastOp' = [Did("SetSplitTunnelRoutes") EXCEPT
                         !.err = ~dataStoreOpen \/ tx.err,
                         !.config = failure]
        /\ UNCHANGED <<diskVars, clientVars, datastoreDB, openPC, importing, taken,
                       promoted, crashImage>>

SetSplitTunnelRoutes(region, etag, data) ==
    SetSplitTunnelRoutesFailing(region, etag, data, "none")

SetUrlETag(url, etag) == PutValue("SetUrlETag", "urlETags", url, etag)

SetKeyValue(key, value) == PutValue("SetKeyValue", "keyValues", key, value)

SetSLOK(id, key) ==
    /\ boltFile' = IF dataStoreOpen
                   THEN [boltFile EXCEPT !.SLOKs = BucketPut(@, id, key)]
                   ELSE boltFile
    /\ lastOp' = [Did("SetSLOK") EXCEPT !.err = ~dataStoreOpen,
                              !.out = dataStoreOpen /\ ~BucketGet(boltFile.SLOKs, id).isNil]
    /\ UNCHANGED <<diskVars, clientVars, datastoreDB, openPC, importing, taken, promoted, crashImage>>

DeleteSLOKs ==
    /\ boltFile' = IF dataStoreOpen
                   THEN [boltFile EXCEPT !.SLOKs = DeleteAll(@, CursorKeys(DOMAIN @))]
                   ELSE boltFile
    /\ lastOp' = [Did("DeleteSLOKs") EXCEPT !.err = ~dataStoreOpen]
    /\ UNCHANGED <<diskVars, clientVars, datastoreDB, openPC, importing, taken, promoted, crashImage>>

SetTacticsRecord(networkID, record) ==
    PutValue("SetTacticsRecord", "tactics", networkID, record)

SetSpeedTestSamplesRecord(networkID, record) ==
    PutValue("SetSpeedTestSamplesRecord", "speedTestSamples", networkID, record)

\* One dataStoreView that gets the value at key in one bucket and returns it:
\* as a copy made inside the view, or as the slice bucket.Get returned.
GetValue(op, bucketName, key, copies) ==
    /\ slices' = IF dataStoreOpen
                 THEN [op |-> op,
                       copied |-> copies \/ BucketGet(boltFile[bucketName], key).isNil,
                       data |-> BucketGet(boltFile[bucketName], key),
                       file |-> boltFile,
                       unmapped |-> FALSE]
                 ELSE NoSlice
    /\ lastOp' = [Did(op) EXCEPT !.err = ~dataStoreOpen]
    /\ UNCHANGED <<diskVars, inflight, iterator, startCall, conn, dial, datastoreDB, openPC, boltFile,
                   importing, taken, promoted, crashImage>>

GetSplitTunnelRoutesData(region) ==
    GetValue("GetSplitTunnelRoutesData", "splitTunnelRouteData", region, TRUE)

GetSLOK(id) == GetValue("GetSLOK", "SLOKs", id, FALSE)

getBucketValue(op, bucketName, key) == GetValue(op, bucketName, key, FALSE)

GetTacticsRecord(networkID) == getBucketValue("GetTacticsRecord", "tactics", networkID)

GetSpeedTestSamplesRecord(networkID) ==
    getBucketValue("GetSpeedTestSamplesRecord", "speedTestSamples", networkID)

\* What a read of the returned slice can give: the bytes that were returned;
\* or, when the slice is memory of the bolt.DB and that has committed an
\* update or has been closed since, also other bytes or a fault.
ReadOutcomes(slice) ==
    IF slice.copied \/ (~slice.unmapped /\ slice.file = boltFile)
    THEN {"data"}
    ELSE {"data", "other", "fault"}

\* The caller of a getter reads the slice it was given.
ReadSlice(outcome) ==
    /\ slices.op # "none"
    /\ ~slices.data.isNil
    /\ outcome \in ReadOutcomes(slices)
    /\ lastOp' = [Did("ReadSlice") EXCEPT !.out = (outcome = "data"),
                                          !.err = (outcome = "fault")]
    /\ UNCHANGED <<diskVars, clientVars, datastoreDB, openPC, boltFile, importing, taken,
                   promoted, crashImage>>

\* ------------------------------------------------------------ client library

startResultCodeSuccess == 0

startResultCodeTimeout == 1

startResultCodeOtherError == 2

\* Start from the open datastore to the go statement: the controller is made,
\* the timeout is armed and the goroutine of controller.Run is started. The
\* embedded server entry list is empty.
StartRun ==
    /\ startCall.pc \in {"none", "stopped"}
    /\ dataStoreOpen
    /\ openPC = "idle"
    /\ Len(startCall.heap) < MaxResults
    /\ startCall' = [NoStartCall EXCEPT !.pc = "running", !.controller = "running",
                                        !.heap = startCall.heap,
                                        !.managedStartResult = startCall.managedStartResult]
    /\ lastOp' = Did("Start")
    /\ UNCHANGED <<diskVars, inflight, slices, iterator, conn, dial, datastoreDB, openPC, boltFile,
                   importing, taken, promoted, crashImage>>

\* C.free of the C string a pointer refers to.
Cfree(heap, pointer) ==
    [heap EXCEPT ![pointer] = IF @ = "live" THEN "freed" ELSE "freedTwice"]

freeManagedStartResult(call) ==
    IF call.managedStartResult # 0
    THEN [call EXCEPT !.heap = Cfree(@, call.managedStartResult),
                      !.managedStartResult = 0]
    ELSE call

\* Start returns startErrorJson(err) before it has started the controller:
\* the config does not load or commit, the datastore does not open, the
\* embedded server entries are not stored, or the controller is not made. The
\* C string is allocated and returned, and nothing else is done: a datastore
\* this Start has opened stays open. prev is the step Start had done last.
StartError ==
    /\ startCall.pc \in {"none", "stopped", "returned"}
    /\ Len(startCall.heap) < MaxResults
    /\ startCall' = [startCall EXCEPT !.heap = Append(@, "live")]
    /\ lastOp' = [Did("Start") EXCEPT !.err = TRUE, !.n = Len(startCall.heap) + 1,
                                     !.prev = lastOp.op]
    /\ UNCHANGED <<diskVars, inflight, slices, iterator, conn, dial, datastoreDB, openPC, boltFile,
                   importing, taken, promoted, crashImage>>

\* The select of Start takes a case and Start returns its result: the previous
\* result is freed, and the new one is allocated and kept in
\* managedStartResult.
StartReturns(call, code) ==
    [freeManagedStartResult(call) EXCEPT
                 !.heap = Append(@, "live"),
                 !.managedStartResult = Len(freeManagedStartResult(call).heap) + 1,
                 !.pc = "returned",
                 !.cancelled = @ \/ code # startResultCodeSuccess,
                 !.result = [Code |-> code,
                             HttpProxyPort |-> IF code = startResultCodeSuccess
                                               THEN call.httpProxyPort ELSE 0,
                             SocksProxyPort |-> IF code = startResultCodeSuccess
                                                THEN call.socksProxyPort ELSE 0]]

\* select { case ch <- v: default: } on the unbuffered channel connected or
\* testError: the value is received when Start waits in its select, and is
\* dropped otherwise.
NonBlockingSend(call, code) ==
    IF call.pc = "waiting" THEN StartReturns(call, code) ELSE call

\* Start reaches its select: with the timeout already done it returns the
\* timeout result, otherwise it waits.
StartSelect ==
    /\ startCall.pc = "running"
    /\ startCall' = IF startCall.timedOut
                    THEN StartReturns(startCall, startResultCodeTimeout)
                    ELSE [startCall EXCEPT !.pc = "waiting"]
    /\ lastOp' = Did("Start select")
    /\ UNCHANGED <<diskVars, inflight, slices, iterator, conn, dial, datastoreDB, openPC, boltFile,
                   importing, taken, promoted, crashImage>>

\* The controller emits a notice that the notice receiver set by Start gets.
ControllerEmits(call) ==
    /\ call.controller = "running"
    /\ call.notices < MaxNotices

\* The notice receiver gets a Tunnels notice.
NoticeTunnels(count) ==
    /\ ControllerEmits(startCall)
    /\ startCall' =
          [(IF count > 0 THEN NonBlockingSend(startCall, startResultCodeSuccess)
            ELSE startCall)
           EXCEPT !.notices = @ + 1,
                  !.connectedNotice = @ \/ (count > 0 /\ ~startCall.timedOut)]
    /\ lastOp' = [Did("Tunnels") EXCEPT !.n = count]
    /\ UNCHANGED <<diskVars, inflight, slices, iterator, conn, dial, datastoreDB, openPC, boltFile,
                   importing, taken, promoted, crashImage>>

\* The notice receiver gets a ListeningHttpProxyPort or ListeningSocksProxyPort
\* notice.
NoticeListening(noticeType, port) ==
    /\ ControllerEmits(startCall)
    /\ startCall' = IF noticeType = "ListeningHttpProxyPort"
                    THEN [startCall EXCEPT !.notices = @ + 1, !.httpProxyPort = port]
                    ELSE [startCall EXCEPT !.notices = @ + 1, !.socksProxyPort = port]
    /\ lastOp' = [Did(noticeType) EXCEPT !.n = port]
    /\ UNCHANGED <<diskVars, inflight, slices, iterator, conn, dial, datastoreDB, openPC, boltFile,
                   importing, taken, promoted, crashImage>>

\* The notice receiver gets bytes that json.Unmarshal rejects.
NoticeMalformed ==
    /\ ControllerEmits(startCall)
    /\ startCall' = [NonBlockingSend(startCall, startResultCodeOtherError)
                     EXCEPT !.notices = @ + 1, !.errorSignalled = TRUE]
    /\ lastOp' = Did("malformed notice")
    /\ UNCHANGED <<diskVars, inflight, slices, iterator, conn, dial, datastoreDB, openPC, boltFile,
                   importing, taken, promoted, crashImage>>

\* timeoutSignal is done.
Timeout ==
    /\ startCall.pc \in {"running", "waiting"}
    /\ ~startCall.timedOut
    /\ startCall' = [(IF startCall.pc = "waiting"
                      THEN StartReturns(startCall, startResultCodeTimeout)
                      ELSE startCall)
                     EXCEPT !.timedOut = TRUE]
    /\ lastOp' = Did("timeout")
    /\ UNCHANGED <<diskVars, inflight, slices, iterator, conn, dial, datastoreDB, openPC, boltFile,
                   importing, taken, promoted, crashImage>>

\* controller.Run returns, stopped or on its own, and its goroutine sends
\* "controller.Run exited unexpectedly".
ControllerRunExits ==
    /\ startCall.controller = "running"
    /\ startCall' = [NonBlockingSend(startCall, startResultCodeOtherError)
                     EXCEPT !.controller = "exited",
                            !.errorSignalled = @ \/ ~startCall.cancelled]
    /\ lastOp' = Did("controller.Run exits")
    /\ UNCHANGED <<diskVars, inflight, slices, iterator, conn, dial, datastoreDB, openPC, boltFile,
                   importing, taken, promoted, crashImage>>

\* Stop up to controllerWaitGroup.Wait(): the managed result is freed, the
\* controller is stopped and its goroutine is gone. CloseDataStore follows.
\* Before any Start there is no controller to stop or to wait for.
StopWait ==
    /\ startCall.pc \in {"none", "returned"}
    /\ \/ startCall.controller \in {"none", "exited"}
       \/ ~startCall.cancelled
    /\ startCall' = [freeManagedStartResult(startCall) EXCEPT
                       !.pc = IF startCall.controller \in {"none", "exited"}
                              THEN "stopped" ELSE @,
                       !.cancelled = TRUE]
    /\ lastOp' = Did("Stop")
    /\ UNCHANGED <<diskVars, inflight, slices, iterator, conn, dial, datastoreDB, openPC, boltFile,
                   importing, taken, promoted, crashImage>>

\* ------------------------------------------------------------------- quic

\* The datastore and the client library are left alone by the quic package.
quicUnchanged ==
    UNCHANGED <<diskVars, inflight, slices, iterator, startCall, datastoreDB, openPC,
                boltFile, importing, taken, promoted, crashImage>>

\* Listener.Accept: a Conn with an established session and the stream
\* deferred, or an error.
ListenerAccept(ok) ==
    /\ ~conn.made
    /\ conn' = IF ok THEN [NoConn EXCEPT !.made = TRUE, !.deferredAcceptStream = TRUE]
               ELSE conn
    /\ lastOp' = [Did("Listener.Accept") EXCEPT !.err = ~ok]
    /\ quicUnchanged
    /\ UNCHANGED dial

ConnMethods == {"Read", "Write", "SetDeadline", "SetReadDeadline", "SetWriteDeadline"}

\* A caller enters Read, Write or one of the Set*Deadline methods.
ConnCall(caller, method) ==
    /\ conn.made
    /\ conn.pc[caller] = "idle"
    /\ conn' = [conn EXCEPT !.pc[caller] = IF conn.deferredAcceptStream
                                           THEN "doDeferredAcceptStream" ELSE "stream",
                            !.op[caller] = method]
    /\ lastOp' = [Did(method) EXCEPT !.n = caller]
    /\ quicUnchanged
    /\ UNCHANGED dial

\* doDeferredAcceptStream taking neither early return.
deferredEntryAlwaysAccepts(c) == "AcceptStream"

\* What doDeferredAcceptStream does once it holds acceptMutex: it returns nil,
\* returns acceptErr, or calls AcceptStream.
deferredEntry(c) ==
    IF c.stream # 0 THEN "nil"
    ELSE IF c.acceptErr THEN "acceptErr"
    ELSE "AcceptStream"

\* doDeferredAcceptStream from Lock to its early returns or to the call of
\* session.AcceptStream, which blocks with the mutex held.
doDeferredAcceptStream(caller) ==
    /\ conn.pc[caller] = "doDeferredAcceptStream"
    /\ conn.acceptMutex = 0
    /\ deferredEntry(conn) = "AcceptStream" => conn.acceptStreamCalls < MaxAcceptStreams
    /\ conn' = IF deferredEntry(conn) = "nil"
               THEN [conn EXCEPT !.pc[caller] = "stream"]
               ELSE IF deferredEntry(conn) = "acceptErr"
               THEN [conn EXCEPT !.pc[caller] = "idle"]
               ELSE [conn EXCEPT !.pc[caller] = "AcceptStream",
                                 !.acceptMutex = caller,
                                 !.acceptStreamCalls = @ + 1]
    /\ lastOp' = [Did("doDeferredAcceptStream") EXCEPT
                     !.n = caller,
                     !.err = deferredEntry(conn) = "acceptErr",
                     !.out = deferredEntry(conn) = "AcceptStream"]
    /\ quicUnchanged
    /\ UNCHANGED dial

\* session.AcceptStream returns, and doDeferredAcceptStream with it: with a
\* stream, which is kept; or with an error, after which the session is closed
\* and the error is kept. It fails once the session is closed.
AcceptStreamReturns(caller, ok) ==
    /\ conn.pc[caller] = "AcceptStream"
    /\ ok => ~conn.sessionClosed
    /\ conn' = IF ok
               THEN [conn EXCEPT !.stream = conn.acceptStreamCalls,
                                 !.acceptMutex = 0,
                                 !.pc[caller] = "stream"]
               ELSE [conn EXCEPT !.sessionClosed = TRUE,
                                 !.acceptErr = TRUE,
                                 !.acceptMutex = 0,
                                 !.pc[caller] = "idle"]
    /\ lastOp' = [Did("AcceptStream") EXCEPT !.n = caller, !.err = ~ok]
    /\ quicUnchanged
    /\ UNCHANGED dial

\* isErrorIndicatingClosed(err) for the result of a stream call.
isErrorIndicatingClosed(result) == result = "PeerGoingAway"

\* The call on conn.stream returns and the method with it. Read and Write
\* close the Conn on an error that indicates the peer is gone.
ConnStreamReturns(caller, result) ==
    /\ conn.pc[caller] = "stream"
    /\ result = "nil" => ~conn.sessionClosed
    /\ conn' = IF conn.op[caller] \in {"Read", "Write"} /\ isErrorIndicatingClosed(result)
               THEN [conn EXCEPT !.pc[caller] = "idle", !.sessionClosed = TRUE,
                                 !.isClosed = TRUE]
               ELSE [conn EXCEPT !.pc[caller] = "idle"]
    /\ lastOp' = [Did("stream." \o conn.op[caller]) EXCEPT
                     !.n = caller, !.err = result # "nil"]
    /\ quicUnchanged
    /\ UNCHANGED dial

\* Conn.Close.
ConnClose ==
    /\ conn.made
    /\ conn' = [conn EXCEPT !.sessionClosed = TRUE, !.isClosed = TRUE]
    /\ lastOp' = Did("Conn.Close")
    /\ quicUnchanged
    /\ UNCHANGED dial

\* Dial is called with a new packetConn and a ctx that may have a deadline and
\* may be done already.
DialCall(hasDeadline, ctxDone) ==
    /\ dial.pc \in {"none", "returned"}
    /\ dial.goroutine \in {"none", "done"}
    /\ dial.dials < MaxDials
    /\ dial' = [NoDial EXCEPT !.pc = "DialContext", !.hasDeadline = hasDeadline,
                              !.ctxDone = ctxDone, !.dials = dial.dials + 1]
    /\ lastOp' = [Did("Dial") EXCEPT !.flag = hasDeadline]
    /\ quicUnchanged
    /\ UNCHANGED conn

\* ctx is cancelled or its deadline passes.
CtxDone ==
    /\ dial.pc \in {"DialContext", "select"}
    /\ ~dial.ctxDone
    /\ dial' = [dial EXCEPT !.ctxDone = TRUE]
    /\ lastOp' = Did("ctx.Done")
    /\ quicUnchanged
    /\ UNCHANGED conn

\* quic_go.DialContext returns: with an error, and Dial closes packetConn and
\* returns it; or with a session, and Dial starts the goroutine that opens the
\* stream and goes to its select.
DialContextReturns(ok) ==
    /\ dial.pc = "DialContext"
    /\ dial' = IF ok
               THEN [dial EXCEPT !.session = "open", !.goroutine = "OpenStream",
                                 !.pc = "select"]
               ELSE [dial EXCEPT !.packetConnClosed = TRUE, !.result = "err",
                                 !.pc = "returned"]
    /\ lastOp' = [Did("DialContext") EXCEPT !.err = ~ok]
    /\ quicUnchanged
    /\ UNCHANGED conn

\* session.OpenStream returns in the goroutine: with a stream, and the
\* goroutine sends the Conn; or with an error, and it closes the session and
\* sends the error. It fails once the session is closed.
OpenStreamReturns(ok) ==
    /\ dial.goroutine = "OpenStream"
    /\ ok => dial.session = "open"
    /\ dial' = IF ok
               THEN [dial EXCEPT !.goroutine = "send", !.sending = "conn"]
               ELSE [dial EXCEPT !.goroutine = "send", !.sending = "err",
                                 !.session = "closed"]
    /\ lastOp' = [Did("OpenStream") EXCEPT !.err = ~ok]
    /\ quicUnchanged
    /\ UNCHANGED conn

\* Dial after it has received from resultChannel the value the goroutine
\* sends, which ends the goroutine: it returns the Conn, or closes
\* packetConn and returns the error it holds.
DialReceived(d, err) ==
    IF err
    THEN [d EXCEPT !.goroutine = "done", !.sending = "none", !.packetConnClosed = TRUE,
                   !.result = "err", !.pc = "returned"]
    ELSE [d EXCEPT !.goroutine = "done", !.sending = "none", !.result = "conn",
                   !.pc = "returned"]

\* The select of Dial takes case result := <-resultChannel.
DialSelectResult ==
    /\ dial.pc = "select"
    /\ dial.goroutine = "send"
    /\ dial' = DialReceived(dial, dial.sending = "err")
    /\ lastOp' = [Did("Dial select result") EXCEPT !.err = dial.sending = "err"]
    /\ quicUnchanged
    /\ UNCHANGED conn

\* The ctx.Done case returning without the receive from resultChannel.
selectCtxDoneNoReceive(d) ==
    [d EXCEPT !.session = "closed", !.packetConnClosed = TRUE, !.result = "err",
              !.pc = "returned"]

\* The ctx.Done case of the select up to the receive: err is ctx.Err() and
\* the session is closed.
selectCtxDone(d) == [d EXCEPT !.session = "closed", !.pc = "receive"]

\* The select of Dial takes case <-ctx.Done().
DialSelectCtxDone ==
    /\ dial.pc = "select"
    /\ dial.ctxDone
    /\ dial' = selectCtxDone(dial)
    /\ lastOp' = [Did("Dial select ctx.Done") EXCEPT !.err = TRUE]
    /\ quicUnchanged
    /\ UNCHANGED conn

\* <-resultChannel in the ctx.Done case: what the goroutine sends is dropped,
\* and Dial closes packetConn and returns ctx.Err().
DialInterruptReceive ==
    /\ dial.pc = "receive"
    /\ dial.goroutine = "send"
    /\ dial' = DialReceived(dial, TRUE)
    /\ lastOp' = [Did("Dial receive") EXCEPT !.err = TRUE, !.flag = dial.sending = "conn"]
    /\ quicUnchanged
    /\ UNCHANGED conn

\* The caller closes the Conn that Dial returned: Conn.Close closes the
\* session and the packetConn of the Conn.
DialedConnClose ==
    /\ dial.pc = "returned"
    /\ dial.result = "conn"
    /\ dial.session = "open"
    /\ dial' = [dial EXCEPT !.session = "closed", !.packetConnClosed = TRUE]
    /\ lastOp' = Did("Conn.Close")
    /\ quicUnchanged
    /\ UNCHANGED conn

\* ------------------------------------------------------------ specifications

ServerEntryFields ==
    [ipAddress : ServerIds, configurationVersion : Versions, valid : BOOLEAN]

Configs == [EgressRegion : Regions]

\* The embedded server entry list: EmbeddedCount valid entries of version 0.
EmbeddedServerEntries ==
    [i \in 1..EmbeddedCount |->
        [ipAddress |-> NumServerIds + i, configurationVersion |-> 0, valid |-> TRUE]]

\* The server registry and the ranker, with promotion, corruption of stored
\* entries, and close and reopen.
Next ==
    \/ OpenDataStore
    \/ OpenDataStoreReset
    \/ CloseDataStore
    \/ \E fields \in ServerEntryFields, replaceIfExists \in BOOLEAN :
          StoreServerEntry(fields, replaceIfExists)
    \/ \E ipAddress \in ServerIds : CorruptServerEntry(ipAddress)
    \/ \E config \in Configs, ipAddress \in ServerIds :
          PromoteServerEntry(config, ipAddress)

Spec == Init /\ [][Next]_vars

\* The persistent stat queue with concurrent callers, crash and reopen.
NextStats ==
    \/ OpenDataStore
    \/ OpenDataStoreReset
    \/ Crash
    \/ \E statType \in StatTypes, stat \in StatKeys : StorePersistentStat(statType, stat)
    \/ CountUnreportedPersistentStats
    \/ \E caller \in Callers, maxCount \in 0..MaxTakeOut :
          TakeOutUnreportedPersistentStats(caller, maxCount)
    \/ \E caller \in Callers : PutBackUnreportedPersistentStats(caller)
    \/ \E caller \in Callers : ClearReportedPersistentStats(caller)

SpecStats == Init /\ [][NextStats]_vars

\* The ranker at its cap: one controller imports the embedded list and, while
\* no import runs, stores and promotes entries of its own.
NextCap ==
    \/ OpenDataStore
    \/ OpenDataStoreReset
    \/ StoreServerEntriesCall(EmbeddedServerEntries, FALSE)
    \/ StoreServerEntriesStep
    \/ /\ importing.list = <<>>
       /\ \E ipAddress \in ServerIds, replaceIfExists \in BOOLEAN :
             StoreServerEntry(
                 [ipAddress |-> ipAddress, configurationVersion |-> 0, valid |-> TRUE],
                 replaceIfExists)
    \/ /\ importing.list = <<>>
       /\ \E ipAddress \in ServerIds :
             PromoteServerEntry([EgressRegion |-> <<>>], ipAddress)

SpecCap == Init /\ [][NextCap]_vars

\* The server registry with a ranked vector that may stop decoding, so that the
\* rank insert of a store or of a promotion can fail inside its transaction.
NextRegistry ==
    \/ OpenDataStore
    \/ OpenDataStoreReset
    \/ CloseDataStore
    \/ \E fields \in ServerEntryFields, replaceIfExists \in BOOLEAN :
          StoreServerEntry(fields, replaceIfExists)
    \/ \E ipAddress \in ServerIds : CorruptServerEntry(ipAddress)
    \/ CorruptRankedServerEntries
    \/ \E ipAddress \in ServerIds :
          PromoteServerEntry([EgressRegion |-> <<67, 65>>], ipAddress)

SpecRegistry == Init /\ [][NextRegistry]_vars

\* Scenario S1: the entries A, B and C, here the ids 1, 2 and 3, imported in
\* that order without replacement.
S1ServerEntries ==
    [i \in 1..3 |-> [ipAddress |-> i, configurationVersion |-> 1, valid |-> TRUE]]

S1Ids == {S1ServerEntries[i].ipAddress : i \in 1..Len(S1ServerEntries)}

\* The import of scenario S1 into a new datastore, with promotions under any
\* region and close and reopen.
NextS1 ==
    \/ OpenDataStore
    \/ OpenDataStoreReset
    \/ CloseDataStore
    \/ StoreServerEntriesCall(S1ServerEntries, FALSE)
    \/ StoreServerEntriesStep
    \/ \E config \in Configs, ipAddress \in S1Ids :
          PromoteServerEntry(config, ipAddress)

SpecS1 == Init /\ [][NextS1]_vars

\* Scenario S4: S4Count distinct entries, the ids 1 to S4Count in that order.
S4ServerEntries ==
    [i \in 1..S4Count |-> [ipAddress |-> i, configurationVersion |-> 1, valid |-> TRUE]]

\* The import of scenario S4 into a new datastore, with close and reopen.
NextS4 ==
    \/ OpenDataStore
    \/ OpenDataStoreReset
    \/ CloseDataStore
    \/ StoreServerEntriesCall(S4ServerEntries, FALSE)
    \/ StoreServerEntriesStep

SpecS4 == Init /\ [][NextS4]_vars

\* One entry, one stat key and one slot per cache, for the specification of
\* every operation together.
OneServerEntry == [ipAddress |-> 1, configurationVersion |-> 0, valid |-> TRUE]

\* A file written by an earlier version of the program: it has the tunnelStats
\* bucket, lacks the buckets added since, and holds one ranked entry.
LegacyBuckets == {"serverEntries", "rankedServerEntries", "keyValues", tunnelStatsBucket}

LegacyFile ==
    [EmptyFile EXCEPT
        !.serverEntries = BucketPut(@, 1, MarshalServerEntry(OneServerEntry)),
        !.rankedServerEntries = BucketPut(@, rankedServerEntriesKey, <<1>>)]

InitLegacy ==
    /\ InitProcess
    /\ boltFile = LegacyFile
    /\ disk = [NoFile EXCEPT !.file = "valid", !.buckets = LegacyBuckets]

\* Opening, closing and crashing over a file that may be new, written by an
\* earlier version, or damaged, in a directory that may be read-only.
NextOpen ==
    \/ OpenDataStore
    \/ OpenDataStoreReset
    \/ CloseDataStore
    \/ Crash
    \/ \E kind \in {"badMeta", "badPages"} : CorruptFile(kind)
    \/ \E writable \in BOOLEAN : SetDirectoryWritable(writable)
    \/ \E locks \in BOOLEAN : OtherProcessLocks(locks)
    \/ \E ipAddress \in ServerIds :
          StoreServerEntry([ipAddress |-> ipAddress, configurationVersion |-> 0,
                            valid |-> TRUE], FALSE)
    \/ \E stat \in StatKeys :
          StorePersistentStat(PERSISTENT_STAT_TYPE_REMOTE_SERVER_LIST, stat)

SpecOpen == (Init \/ InitLegacy) /\ [][NextOpen]_vars

\* Views and updates of concurrent callers, each in its two halves, between
\* opens, closes and crashes.
NextInflight ==
    \/ OpenDataStore
    \/ OpenDataStoreReset
    \/ CloseDataStore
    \/ Crash
    \/ \E caller \in Callers, update \in BOOLEAN : dataStoreBegin(caller, update)
    \/ \E caller \in Callers : dataStoreRun(caller)
    \/ \E stat \in StatKeys :
          StorePersistentStat(PERSISTENT_STAT_TYPE_REMOTE_SERVER_LIST, stat)

SpecInflight == Init /\ [][NextInflight]_vars

OneKey == <<107>>

OneValue == <<118>>

\* Writes to every kind of record, between closes, crashes and opens of a file
\* that another process may have locked.
NextDurable ==
    \/ OpenDataStore
    \/ OpenDataStoreReset
    \/ CloseDataStore
    \/ Crash
    \/ \E locks \in BOOLEAN : OtherProcessLocks(locks)
    \/ StoreServerEntry(OneServerEntry, TRUE)
    \/ PromoteServerEntry([EgressRegion |-> <<67, 65>>], 1)
    \/ StorePersistentStat(PERSISTENT_STAT_TYPE_REMOTE_SERVER_LIST, AllStatKeys[1])
    \/ TakeOutUnreportedPersistentStats(1, 1)
    \/ SetSplitTunnelRoutes(OneKey, OneValue, OneValue)
    \/ SetUrlETag(OneKey, OneValue)
    \/ SetSLOK(OneKey, OneValue)
    \/ SetTacticsRecord(OneKey, OneValue)

SpecDurable == (Init \/ InitLegacy) /\ [][NextDurable]_vars

OtherValue == <<119>>

\* The getters of byte slices and reads of what they returned, between writes
\* to the same buckets, closes and opens.
NextSlices ==
    \/ OpenDataStore
    \/ OpenDataStoreReset
    \/ CloseDataStore
    \/ \E value \in {OneValue, OtherValue} : SetSLOK(OneKey, value)
    \/ DeleteSLOKs
    \/ SetTacticsRecord(OneKey, OneValue)
    \/ SetSpeedTestSamplesRecord(OneKey, OneValue)
    \/ SetSplitTunnelRoutes(OneKey, OneValue, OneValue)
    \/ GetSplitTunnelRoutesData(OneKey)
    \/ GetSLOK(OneKey)
    \/ GetTacticsRecord(OneKey)
    \/ GetSpeedTestSamplesRecord(OneKey)
    \/ \E outcome \in {"data", "other", "fault"} : ReadSlice(outcome)

SpecSlices == Init /\ [][NextSlices]_vars

\* Server entries with a region, or with no "region" key.
RegionServerEntryFields ==
    [ipAddress : S1Ids, configurationVersion : {1}, valid : {TRUE},
     region : {NilBytes, ToBytes(<<67, 65>>), ToBytes(<<85, 83>>)}]

\* Iteration in standard mode over entries of scenarios S1 and S6: entries are
\* stored, promoted and damaged in an open datastore while no iterator is in
\* use, and a new iterator runs its cycle with no write beside it.
NextIterator ==
    \/ ~iterator.set /\ OpenDataStore
    \/ OpenDataStoreReset
    \/ ~iterator.set /\ \E fields \in RegionServerEntryFields : StoreServerEntry(fields, FALSE)
    \/ ~iterator.set /\ \E ipAddress \in S1Ids : CorruptServerEntry(ipAddress)
    \/ ~iterator.set /\ \E ipAddress \in S1Ids : MistypeServerEntry(ipAddress)
    \/ ~iterator.set /\ \E ipAddress \in S1Ids :
                            PromoteServerEntry([EgressRegion |-> <<67, 65>>], ipAddress)
    \/ ~iterator.set /\ \E config \in [EgressRegion : {<<>>, <<67, 65>>}],
                            tunnelPoolSize \in 0..1 :
                            ServerEntryIteratorReset(config, tunnelPoolSize)
    \/ ServerEntryIteratorNext
    \/ ServerEntryIteratorClose

SpecIterator == Init /\ [][NextIterator]_vars

\* The pool sizes of the iterators over the embedded list: 0 is the shuffle
\* head of an iterator in tactics mode.
ResetPoolSizes == {0, 1, 2, rankedServerEntryCount}

\* New iterators, in standard and in tactics mode, over a store that holds the
\* embedded list and entries stored and promoted beside it, some of them no
\* longer ranked.
NextReset ==
    \/ OpenDataStore
    \/ OpenDataStoreReset
    \/ ~iterator.set /\ StoreServerEntriesCall(EmbeddedServerEntries, FALSE)
    \/ StoreServerEntriesStep
    \/ /\ importing.list = <<>>
       /\ ~iterator.set
       /\ \E ipAddress \in ServerIds :
             StoreServerEntry(
                 [ipAddress |-> ipAddress, configurationVersion |-> 0, valid |-> TRUE],
                 FALSE)
    \/ /\ importing.list = <<>>
       /\ ~iterator.set
       /\ \E ipAddress \in ServerIds :
             PromoteServerEntry([EgressRegion |-> <<>>], ipAddress)
    \/ /\ importing.list = <<>>
       /\ ~iterator.set
       /\ \E tunnelPoolSize \in ResetPoolSizes :
             ServerEntryIteratorReset([EgressRegion |-> <<>>], tunnelPoolSize)
    \/ ServerEntryIteratorClose

SpecReset == Init /\ [][NextReset]_vars

\* OpenDataStore with failures of its updates and of its reset, over a stat
\* queue that callers fill and take out and that a crash leaves with records
\* in state Reporting.
NextOpenFailing ==
    \/ \E failure \in OpenFailures : OpenDataStoreFailing(failure)
    \/ \E fails \in BOOLEAN : OpenDataStoreResetFailing(fails)
    \/ CloseDataStore
    \/ Crash
    \/ \E writable \in BOOLEAN : SetDirectoryWritable(writable)
    \/ StoreServerEntry(OneServerEntry, FALSE)
    \/ \E stat \in StatKeys :
          StorePersistentStat(PERSISTENT_STAT_TYPE_REMOTE_SERVER_LIST, stat)
    \/ \E caller \in Callers, maxCount \in 0..MaxTakeOut :
          TakeOutUnreportedPersistentStats(caller, maxCount)
    \/ \E caller \in Callers : ClearReportedPersistentStats(caller)

SpecOpenFailing == (Init \/ InitLegacy) /\ [][NextOpenFailing]_vars

\* The stat queue of callers that keep what they took out over a close and a
\* new open of the datastore.
NextQueue ==
    \/ OpenDataStore
    \/ OpenDataStoreReset
    \/ CloseDataStore
    \/ \E stat \in StatKeys :
          StorePersistentStat(PERSISTENT_STAT_TYPE_REMOTE_SERVER_LIST, stat)
    \/ \E caller \in Callers, maxCount \in 0..MaxTakeOut :
          TakeOutUnreportedPersistentStats(caller, maxCount)
    \/ \E caller \in Callers : PutBackUnreportedPersistentStats(caller)
    \/ \E caller \in Callers : ClearReportedPersistentStats(caller)

SpecQueue == Init /\ [][NextQueue]_vars

\* Regions, etags and route data of the split tunnel cache.
RouteRegions == {<<67, 65>>, <<85, 83>>}

RouteValues == {<<118>>, <<119>>}

\* The split tunnel routes cache, set with Puts that fail or not and read back.
NextRoutes ==
    \/ OpenDataStore
    \/ OpenDataStoreReset
    \/ CloseDataStore
    \/ \E region \in RouteRegions, etag \in RouteValues, data \in RouteValues,
          failure \in PutFailures :
          SetSplitTunnelRoutesFailing(region, etag, data, failure)
    \/ \E region \in RouteRegions : GetSplitTunnelRoutesData(region)

SpecRoutes == Init /\ [][NextRoutes]_vars

\* Server entries of region "CA" or "US".
SnapshotServerEntryFields ==
    [ipAddress : ServerIds, configurationVersion : {1}, valid : {TRUE},
     region : {ToBytes(<<67, 65>>), ToBytes(<<85, 83>>)}]

\* An iterator in standard mode with stores, replacements and promotions
\* running beside it at any point of its cycle.
NextSnapshot ==
    \/ OpenDataStore
    \/ OpenDataStoreReset
    \/ \E fields \in SnapshotServerEntryFields : StoreServerEntry(fields, TRUE)
    \/ \E ipAddress \in ServerIds :
          PromoteServerEntry([EgressRegion |-> <<67, 65>>], ipAddress)
    \/ \E config \in [EgressRegion : {<<>>, <<67, 65>>}], tunnelPoolSize \in 0..1 :
          ServerEntryIteratorReset(config, tunnelPoolSize)
    \/ ServerEntryIteratorNext
    \/ ServerEntryIteratorClose

SpecSnapshot == Init /\ [][NextSnapshot]_vars

\* The configs with a target server entry.
TargetConfigs ==
    [EgressRegion : {<<>>, <<67, 65>>},
     TargetServerEntry : TargetServerEntries,
     LimitTunnelProtocols : {{}, {"OSSH"}, TacticsProtocols}]

\* Iterators for a target server entry, in both modes, over a datastore that
\* is opened, written and closed beside them.
NextTarget ==
    \/ OpenDataStore
    \/ OpenDataStoreReset
    \/ CloseDataStore
    \/ \E replaceIfExists \in BOOLEAN : StoreServerEntry(OneServerEntry, replaceIfExists)
    \/ PromoteServerEntry([EgressRegion |-> <<85, 83>>], OneServerEntry.ipAddress)
    \/ \E config \in TargetConfigs, isTactics \in BOOLEAN :
          newTargetServerEntryIterator(config, isTactics)
    \/ TargetServerEntryIteratorNext
    \/ TargetServerEntryIteratorReset
    \/ ServerEntryIteratorClose

SpecTarget == Init /\ [][NextTarget]_vars

\* Start and Stop of the client library: the caller of Start, the goroutine of
\* controller.Run, the notices it emits and the timeout, in any order.
NextStart ==
    \/ startCall.pc \in {"none", "stopped"} /\ OpenDataStore
    \/ OpenDataStoreReset
    \/ StartRun
    \/ StartError
    \/ StartSelect
    \/ \E count \in 0..1 : NoticeTunnels(count)
    \/ \E noticeType \in {"ListeningHttpProxyPort", "ListeningSocksProxyPort"} :
          NoticeListening(noticeType, 8080)
    \/ NoticeMalformed
    \/ Timeout
    \/ ControllerRunExits
    \/ StopWait
    \/ startCall.pc = "stopped" /\ CloseDataStore

SpecStart == Init /\ [][NextStart]_vars

\* A Conn from Listener.Accept used by concurrent callers.
NextConn ==
    \/ \E ok \in BOOLEAN : ListenerAccept(ok)
    \/ \E caller \in Callers, method \in ConnMethods : ConnCall(caller, method)
    \/ \E caller \in Callers : doDeferredAcceptStream(caller)
    \/ \E caller \in Callers, ok \in BOOLEAN : AcceptStreamReturns(caller, ok)
    \/ \E caller \in Callers, result \in {"nil", "PeerGoingAway", "timeout"} :
          ConnStreamReturns(caller, result)
    \/ ConnClose

SpecConn == Init /\ [][NextConn]_vars

\* Calls of Dial with their goroutine and the cancellation of ctx, beside the
\* callers of an accepted Conn. The caller of Dial and its goroutine run when
\* they can, and OpenStream returns.
NextDial ==
    \/ \E hasDeadline, ctxDone \in BOOLEAN : DialCall(hasDeadline, ctxDone)
    \/ CtxDone
    \/ \E ok \in BOOLEAN : DialContextReturns(ok)
    \/ \E ok \in BOOLEAN : OpenStreamReturns(ok)
    \/ DialSelectResult
    \/ DialSelectCtxDone
    \/ DialInterruptReceive
    \/ DialedConnClose
    \/ \E ok \in BOOLEAN : ListenerAccept(ok)
    \/ ConnClose

SpecDial ==
    /\ Init
    /\ [][NextDial]_vars
    /\ WF_vars(\E ok \in BOOLEAN : OpenStreamReturns(ok))
    /\ WF_vars(DialSelectResult \/ DialSelectCtxDone)
    /\ WF_vars(DialInterruptReceive)

\* Every operation on the datastore except a SetKeyValue of the filter memo key:
\* promotion under every region, between any of the other operations.
NextAll ==
    \/ OpenDataStore
    \/ OpenDataStoreReset
    \/ CloseDataStore
    \/ StoreServerEntry(OneServerEntry, TRUE)
    \/ StoreServerEntriesCall(<<OneServerEntry>>, FALSE)
    \/ StoreServerEntriesStep
    \/ \E config \in Configs : PromoteServerEntry(config, 1)
    \/ \E config \in Configs : hasServerEntryFilterChanged(config)
    \/ \E config \in Configs : NewServerEntryIterator(config)
    \/ StorePersistentStat(PERSISTENT_STAT_TYPE_REMOTE_SERVER_LIST, AllStatKeys[1])
    \/ CountUnreportedPersistentStats
    \/ TakeOutUnreportedPersistentStats(1, 1)
    \/ PutBackUnreportedPersistentStats(1)
    \/ ClearReportedPersistentStats(1)
    \/ SetSplitTunnelRoutes(OneKey, OneValue, OneValue)
    \/ SetUrlETag(OneKey, OneValue)
    \/ SetKeyValue(DATA_STORE_LAST_CONNECTED_KEY, OneValue)
    \/ SetSLOK(OneKey, OneValue)
    \/ DeleteSLOKs
    \/ SetTacticsRecord(OneKey, OneValue)
    \/ SetSpeedTestSamplesRecord(OneKey, OneValue)

SpecAll == Init /\ [][NextAll]_vars

\* ----------------------------------------------------------------- claims

Ranked == getRankedServerEntries(boltFile)

FilterMemo == BucketGet(boltFile.keyValues, DATA_STORE_LAST_SERVER_ENTRY_FILTER_KEY)

StatTypeSet == {persistentStatTypes[i] : i \in 1..Len(persistentStatTypes)}

\* The keys a stats map names for a stat type.
StatKeySet(stats, statType) ==
    {StatsOf(stats, statType)[i] : i \in 1..Len(StatsOf(stats, statType))}

\* The number of keys a stats map names, over the stat types from index i on.
RECURSIVE StatCount(_, _)
StatCount(stats, i) ==
    IF i > Len(persistentStatTypes) THEN 0
    ELSE Len(StatsOf(stats, persistentStatTypes[i])) + StatCount(stats, i + 1)

\* The number of records of some stat buckets, over the stat types from index i on.
RECURSIVE RecordCount(_, _)
RecordCount(buckets, i) ==
    IF i > Len(persistentStatTypes) THEN 0
    ELSE Cardinality(DOMAIN buckets[persistentStatTypes[i]]) + RecordCount(buckets, i + 1)

\* The number of records in state Unreported, over the stat types from index i on.
RECURSIVE UnreportedCount(_, _)
UnreportedCount(buckets, i) ==
    IF i > Len(persistentStatTypes) THEN 0
    ELSE LET bucket == buckets[persistentStatTypes[i]]
         IN  Cardinality({k \in DOMAIN bucket : bucket[k] = persistentStatStateUnreported})
                + UnreportedCount(buckets, i + 1)

TookOut(op) == op.op = "TakeOutUnreportedPersistentStats" /\ ~op.err

\* C1: in every state reached by storing and promoting server entries from an
\* empty store, the ranked vector holds at most 100 ids and holds no id twice.
C1_RankerCapAndUniqueness ==
    /\ Len(Ranked) <= 100
    /\ Cardinality({Ranked[i] : i \in 1..Len(Ranked)}) = Len(Ranked)

\* C1 witness: the vector is full, an id with a stored entry has been evicted
\* from it, and the last operation stored or promoted an entry.
C1_Witness ==
    /\ Len(Ranked) = 100
    /\ \E ip \in DOMAIN boltFile.serverEntries :
          \A i \in 1..Len(Ranked) : Ranked[i] # ip
    /\ lastOp.op \in {"StoreServerEntry", "PromoteServerEntry"}
    /\ ~lastOp.err

\* C2: a PromoteServerEntry on an open datastore either finds the entry stored
\* and commits, in that one step, the id at the head of the ranked vector and
\* the filter value of its config in the memo, or finds no entry, returns no
\* error and leaves the file as it was.
C2_PromoteSetsHeadAndMemo ==
    [][(lastOp'.op = "PromoteServerEntry" /\ dataStoreOpen) =>
          IF lastOp'.ip \in DOMAIN boltFile.serverEntries
          THEN /\ Len(Ranked') >= 1
               /\ Ranked'[1] = lastOp'.ip
               /\ ~FilterMemo'.isNil
               /\ FilterMemo'.b = lastOp'.region
               /\ ~lastOp'.err
          ELSE /\ boltFile' = boltFile
               /\ ~lastOp'.err]_vars

\* C2 witness: a promotion under region "CA" of a stored entry that was not the
\* only ranked one has committed.
C2_Witness ==
    /\ lastOp.op = "PromoteServerEntry"
    /\ ~lastOp.err
    /\ lastOp.ip \in DOMAIN boltFile.serverEntries
    /\ lastOp.region = <<67, 65>>
    /\ Len(Ranked) >= 2
    /\ Ranked[1] = lastOp.ip

\* C3 (as claimed): while no promotion has committed and the memo is absent,
\* hasServerEntryFilterChanged returns true for every config, the empty egress
\* region included, and NewServerEntryIterator returns no affinity.
C3_FreshStoreReportsChanged ==
    (~promoted.set /\ FilterMemo.isNil /\ ~lastOp.err) =>
        /\ lastOp.op = "hasServerEntryFilterChanged" => lastOp.out
        /\ lastOp.op = "NewServerEntryIterator" => ~lastOp.out

C8_PutBackThenTakeOut ==
    [][(/\ lastOp.op = "PutBackUnreportedPersistentStats"
        /\ ~lastOp.err
        /\ TookOut(lastOp')
        /\ lastOp'.n >= UnreportedCount(boltFile, 1)) =>
          \A t \in StatTypeSet :
              StatKeySet(lastOp.stats, t) \subseteq StatKeySet(lastOp'.stats, t)]_vars

\* C8 witness: a take out directly after a put back returned two keys or more.
C8_Witness ==
    /\ TookOut(lastOp)
    /\ lastOp.prev = "PutBackUnreportedPersistentStats"
    /\ StatCount(lastOp.stats, 1) >= 2

\* C9 (as claimed): CountUnreportedPersistentStats returns the number of stat
\* records, over all stat types, whose state is Unreported.
C9_CountIsTotal ==
    (lastOp.op = "CountUnreportedPersistentStats" /\ ~lastOp.err) =>
        lastOp.n = UnreportedCount(boltFile, 1)

\* C10 (as claimed): a StoreServerEntry that returns no error writes the entry
\* iff no decodable entry is stored at its id, or replaceIfExists is set, or
\* the stored version is strictly lower than the new one; otherwise the stored
\* entries and the ranked vector stay as they were.
C10_VersionPolicy ==
    [][(lastOp'.op = "StoreServerEntry" /\ ~lastOp'.err) =>
          LET ip == lastOp'.ip
              decodable == ip \in DOMAIN boltFile.serverEntries
                              /\ boltFile.serverEntries[ip].decodes
              writes == \/ ~decodable
                        \/ lastOp'.flag
                        \/ boltFile.serverEntries[ip].ConfigurationVersion < lastOp'.ver
          IN  IF writes
              THEN /\ ip \in DOMAIN boltFile'.serverEntries
                   /\ boltFile'.serverEntries[ip].decodes
                   /\ boltFile'.serverEntries[ip].ConfigurationVersion = lastOp'.ver
                   /\ \E i \in 1..Len(Ranked') : Ranked'[i] = ip
              ELSE /\ boltFile'.serverEntries = boltFile.serverEntries
                   /\ Ranked' = Ranked]_vars

\* C11: a StoreServerEntry commits the entry and its rank together or commits
\* nothing: after a step that returns no error the entries changed only at the
\* stored id, which is then ranked, and the ranked vector changed only if the
\* entry was written; after a step that returns an error, a failed rank
\* insert included, the file is as it was.
C11_StoreAndRankTogether ==
    [][lastOp'.op = "StoreServerEntry" =>
          LET ip == lastOp'.ip
          IN  IF lastOp'.err
              THEN boltFile' = boltFile
              ELSE /\ boltFile'.serverEntries # boltFile.serverEntries =>
                         /\ \E i \in 1..Len(Ranked') : Ranked'[i] = ip
                         /\ ~getRankedServerEntriesFails(boltFile')
                         /\ \A other \in DOMAIN boltFile.serverEntries \ {ip} :
                               boltFile'.serverEntries[other] = boltFile.serverEntries[other]
                   /\ boltFile'.rankedServerEntries # boltFile.rankedServerEntries =>
                         /\ ip \in DOMAIN boltFile'.serverEntries
                         /\ boltFile'.serverEntries[ip].decodes
                         /\ boltFile'.serverEntries[ip].ConfigurationVersion = lastOp'.ver]_vars

\* C11 witness: the rank insert of a store failed inside the transaction, and
\* the entry it had put is not in the committed file.
C11_Witness ==
    /\ lastOp.op = "StoreServerEntry"
    /\ lastOp.err
    /\ lastOp.out
    /\ lastOp.ip \notin DOMAIN boltFile.serverEntries
    /\ getRankedServerEntriesFails(boltFile)

\* The entries of scenario S1 are all stored and none has been promoted.
S1Imported == ~promoted.set /\ DOMAIN boltFile.serverEntries = S1Ids

\* C12 (amended): after A, B and C are stored in that order in an empty store
\* the ranked vector is [A, C, B], each store after the first ranking its entry
\* next to the top; a promotion of A under region "CA" then leaves [A, C, B]
\* and writes "CA" to the memo.
C12_S1RankedAfterImport ==
    /\ [](S1Imported => Ranked = <<1, 3, 2>>)
    /\ [][(/\ S1Imported
            /\ lastOp'.op = "PromoteServerEntry"
            /\ lastOp'.ip = 1
            /\ lastOp'.region = <<67, 65>>
            /\ ~lastOp'.err) =>
              /\ Ranked' = <<1, 3, 2>>
              /\ FilterMemo'.b = <<67, 65>>]_vars

\* C12 witness: A was promoted under "CA" right after the import of A, B, C.
C12_Witness ==
    /\ lastOp.op = "PromoteServerEntry"
    /\ lastOp.ip = 1
    /\ ~lastOp.err
    /\ promoted = [set |-> TRUE, region |-> <<67, 65>>, ipAddress |-> 1]
    /\ DOMAIN boltFile.serverEntries = S1Ids
    /\ Ranked = <<1, 3, 2>>

\* C12 (as claimed): after A, B and C are stored in that order in an empty
\* store the ranked vector is [C, B, A].
C12_S1RankedAsClaimed == S1Imported => Ranked = <<3, 2, 1>>

\* The ids the ranked vector holds.
RankedIds == {Ranked[i] : i \in 1..Len(Ranked)}

\* The number of entries stored.
StoredCount == Cardinality(DOMAIN boltFile.serverEntries)

NoRecords == boltFile = EmptyFile

OtherBuckets == DOMAIN EmptyFile \ {PERSISTENT_STAT_TYPE_REMOTE_SERVER_LIST}

C18_GettersReturnCopies ==
    /\ slices.copied
    /\ lastOp.op = "ReadSlice" => lastOp.out

\* The entry stored under an id decodes, and its region is the egress region
\* of the iterator when that is not empty.
IteratorMatches(serverEntryId) ==
    /\ serverEntryId \in DOMAIN boltFile.serverEntries
    /\ boltFile.serverEntries[serverEntryId].decodes
    /\ \/ iterator.config.EgressRegion = <<>>
       \/ boltFile.serverEntries[serverEntryId].Region = ToBytes(iterator.config.EgressRegion)

\* C19 (as claimed): when Next has returned the terminal nil, the planned
\* sequence holds every stored id once, and the ids yielded in the cycle are
\* those of the planned sequence whose entry decodes and matches the egress
\* region, in the order of the planned sequence.
C19_YieldSet ==
    iterator.done =>
        /\ DOMAIN boltFile.serverEntries \subseteq
              {iterator.serverEntryIds[i] : i \in 1..Len(iterator.serverEntryIds)}
        /\ \A i, j \in 1..Len(iterator.serverEntryIds) :
              iterator.serverEntryIds[i] = iterator.serverEntryIds[j] => i = j
        /\ iterator.yielded = SelectSeq(iterator.serverEntryIds, IteratorMatches)

\* C20 (as claimed): when Start has returned, and a Tunnels notice with
\* count > 0 was emitted before the timeout and no error was signalled, the
\* result code is 0; and the result code is 1 only when no such notice was
\* emitted before the timeout.
C20_StartReportsSuccess ==
    startCall.pc = "returned" =>
        /\ (startCall.connectedNotice /\ ~startCall.errorSignalled) =>
              startCall.result.Code = 0
        /\ startCall.result.Code = 1 => ~startCall.connectedNotice

\* C21 (as claimed): every C string a Start has returned and that has not been
\* freed is the one managedStartResult points to, none has been freed twice,
\* and none is left when Stop has run.
C21_ResultsManaged ==
    /\ \A b \in 1..Len(startCall.heap) :
          /\ startCall.heap[b] # "freedTwice"
          /\ startCall.heap[b] = "live" => b = startCall.managedStartResult
    /\ startCall.pc = "stopped" =>
          \A b \in 1..Len(startCall.heap) : startCall.heap[b] = "freed"

\* C22: on a Conn from Listener.Accept, under any interleaving of its callers,
\* AcceptStream is called at most once and by one caller at a time; a stream,
\* once set, is never replaced, and a caller reaches the stream only when it
\* is set; when AcceptStream fails the session is closed and the error kept,
\* and from then on the error stays, no stream is set, AcceptStream is not
\* called again and every doDeferredAcceptStream returns the error.
C22_DeferredAcceptOnce ==
    /\ [](/\ conn.acceptStreamCalls <= 1
          /\ \A c, d \in Callers :
                (conn.pc[c] = "AcceptStream" /\ conn.pc[d] = "AcceptStream") => c = d
          /\ \A c \in Callers : conn.pc[c] = "stream" => conn.stream # 0)
    /\ [][conn.stream # 0 => conn'.stream = conn.stream]_vars
    /\ [][(lastOp'.op = "AcceptStream" /\ lastOp'.err) =>
              (conn'.sessionClosed /\ conn'.acceptErr /\ conn'.stream = 0)]_vars
    /\ [][conn.acceptErr =>
              /\ conn'.acceptErr
              /\ conn'.stream = 0
              /\ conn'.acceptStreamCalls = conn.acceptStreamCalls
              /\ lastOp'.op = "doDeferredAcceptStream" => lastOp'.err]_vars

\* C22 witness: two callers are in their stream calls at once, on the stream
\* of the one AcceptStream that was called.
C22_Witness ==
    /\ conn.acceptStreamCalls = 1
    /\ conn.stream = 1
    /\ \A c \in Callers : conn.pc[c] = "stream"
    /\ conn.op[1] = "Read"
    /\ conn.op[2] = "SetDeadline"

\* C23: when Dial has returned an error, packetConn is closed and no session
\* is open; when Dial returns a Conn, packetConn is not closed and the session
\* is open; when Dial has returned, its goroutine has ended; and the goroutine,
\* once it sends its result, always comes to its end.
C23_DialCleanup ==
    /\ []((dial.pc = "returned" /\ dial.result = "err") =>
              (dial.packetConnClosed /\ dial.session # "open"))
    /\ []((dial.pc = "returned") => dial.goroutine \in {"none", "done"})
    /\ [][(dial.pc # "returned" /\ dial'.pc = "returned" /\ dial'.result = "conn") =>
              (~dial'.packetConnClosed /\ dial'.session = "open")]_vars
    /\ ((dial.goroutine = "send") ~> (dial.goroutine = "done"))

\* C23 witness: ctx was cancelled after the goroutine had opened the stream,
\* and Dial took the ctx.Done case, received the Conn, dropped it and returned
\* the error.
C23_Witness ==
    /\ lastOp.op = "Dial receive"
    /\ lastOp.flag
    /\ dial.pc = "returned"
    /\ dial.result = "err"
    /\ dial.goroutine = "done"
    /\ dial.packetConnClosed
    /\ dial.session = "closed"

\* The ranked vector the claim C24 defines for Insert(id, position) on R.
InsertClaimed(R, id, position) ==
    LET Q == SelectSeq(R, LAMBDA x : x # id)
        p == IF Len(Q) < 100 THEN Min(position, Len(Q)) ELSE Min(position, 99)
        all == SubSeq(Q, 1, p) \o <<id>> \o SubSeq(Q, p + 1, Len(Q))
    IN  SubSeq(all, 1, Min(Len(all), 100))

\* The positions the insert is compared at: the two the code uses, 0 and 1,
\* and those around the end of the vector and around its cap.
InsertPositions ==
    {0, 1, 2} \cup {n \in {Len(Ranked) - 1, Len(Ranked), Len(Ranked) + 1} : n >= 0}
              \cup {rankedServerEntryCount - 1, rankedServerEntryCount,
                    rankedServerEntryCount + 1}

\* The ids the insert is compared for: the ids stores and promotions take, and
\* the ranked ids at the head, next to it, in the middle and at the tail.
InsertIds ==
    ServerIds \cup {Ranked[i] : i \in {1, 2, (Len(Ranked) + 1) \div 2, Len(Ranked)}
                                        \cap (1..Len(Ranked))}

\* C24: on every ranked vector the store reaches, insertRankedServerEntry of
\* any id at any position gives the vector without the id, with the id put in
\* at min(position, length), or min(position, 99) in a full vector, and cut to
\* 100 entries, the other ids keeping their order; and the vector a promotion
\* or a store commits is that vector for position 0 or 1.
C24_InsertRanked ==
    /\ [](\A id \in InsertIds : \A position \in InsertPositions :
              LET inserted == InsertRanked(Ranked, id, position)
                  others == SelectSeq(inserted, LAMBDA x : x # id)
              IN  /\ inserted = InsertClaimed(Ranked, id, position)
                  /\ others = SubSeq(SelectSeq(Ranked, LAMBDA x : x # id), 1, Len(others)))
    /\ [][(/\ lastOp'.op = "PromoteServerEntry"
            /\ dataStoreOpen
            /\ lastOp'.ip \in DOMAIN boltFile.serverEntries
            /\ ~lastOp'.err) =>
              Ranked' = InsertClaimed(Ranked, lastOp'.ip, 0)]_vars
    /\ [][boltFile'.serverEntries # boltFile.serverEntries =>
              Ranked' = InsertClaimed(Ranked, lastOp'.ip, 1)]_vars

\* C24 witness: a promotion in a full vector put its id at the head, before
\* the id promoted earlier, and an entry evicted from the vector is stored.
C24_Witness ==
    /\ lastOp.op = "PromoteServerEntry"
    /\ ~lastOp.err
    /\ Len(Ranked) = 100
    /\ Ranked[1] = lastOp.ip
    /\ Ranked[2] \in ServerIds
    /\ Ranked[3] \notin ServerIds
    /\ \E ip \in DOMAIN boltFile.serverEntries : ip \notin RankedIds

\* C25 (as claimed): once a promotion of a stored entry has committed, the
\* head of the ranked vector is the entry promoted last, whatever stores and
\* promotions follow.
C25_HeadIsLastPromoted ==
    promoted.set => (Len(Ranked) >= 1 /\ Ranked[1] = promoted.ipAddress)

\* C26: in every state that stores of one entry, imports of a list and
\* promotions reach, every id of the ranked vector has a record in the
\* serverEntries bucket, and no step removes a record.
C26_RankedHaveRecords ==
    /\ [](RankedIds \subseteq DOMAIN boltFile.serverEntries)
    /\ [][DOMAIN boltFile.serverEntries \subseteq DOMAIN boltFile'.serverEntries]_vars

\* C26 witness: a promotion of an id that has no record returned no error and
\* ranked nothing, in a store that holds the embedded list and one more entry,
\* all of them ranked.
C26_Witness ==
    /\ lastOp.op = "PromoteServerEntry"
    /\ ~lastOp.err
    /\ lastOp.ip \notin DOMAIN boltFile.serverEntries
    /\ lastOp.ip \notin RankedIds
    /\ Len(Ranked) = StoredCount
    /\ StoredCount > EmbeddedCount

\* The ids stored that the ranked vector does not hold, highest key first.
RECURSIVE Descending(_)
Descending(keys) ==
    IF keys = {} THEN <<>>
    ELSE LET k == CHOOSE x \in keys : \A y \in keys : y <= x
         IN  <<k>> \o Descending(keys \ {k})

\* C27: a Reset that returns no error leaves a list S with no id twice, that
\* holds the ranked ids and every other stored id and no other; with h the
\* pool size (0 in tactics mode), the first min(h, |S|) ids of S are the first
\* ids of the ranked vector followed by the unranked ids in descending key
\* order, the rest of S holds the rest of these; and the index is 0.
C27_ResetPlan ==
    [][(lastOp'.op = "ServerEntryIterator.Reset" /\ ~lastOp'.err) =>
          LET S == iterator'.serverEntryIds
              h == Min(lastOp'.n, Len(S))
              base == Ranked \o Descending(DOMAIN boltFile.serverEntries \ RankedIds)
          IN  /\ iterator'.set
              /\ iterator'.serverEntryIndex = 0
              /\ Len(S) = Len(base)
              /\ Cardinality({S[i] : i \in 1..Len(S)}) = Len(S)
              /\ {S[i] : i \in 1..Len(S)} = RankedIds \cup DOMAIN boltFile.serverEntries
              /\ SubSeq(S, 1, h) = SubSeq(base, 1, h)
              /\ {S[i] : i \in (h + 1)..Len(S)} = {base[i] : i \in (h + 1)..Len(base)}]_vars

\* C27 witness: a Reset with pool size 2 over a full ranked vector and one
\* stored id that is not ranked kept the first two ranked ids in place and
\* moved the unranked id from the end of the list.
C27_Witness ==
    /\ lastOp.op = "ServerEntryIterator.Reset"
    /\ ~lastOp.err
    /\ lastOp.n = 2
    /\ Len(Ranked) = rankedServerEntryCount
    /\ Len(iterator.serverEntryIds) = rankedServerEntryCount + 1
    /\ iterator.serverEntryIds[1] = Ranked[1]
    /\ iterator.serverEntryIds[2] = Ranked[2]
    /\ iterator.serverEntryIds[rankedServerEntryCount + 1] \in RankedIds

\* C28: an iterator made for a target server entry comes with the boolean
\* FALSE; its Next returns the target entry once and nil at every call after,
\* until a Reset, after which it returns the entry once more, whatever the
\* datastore holds and whether it is open or not; and no iterator is made, and
\* an error is returned, for a target entry of another region than the
\* EgressRegion of the config or with no protocol among its
\* LimitTunnelProtocols, and in tactics mode for one with no tactics protocol.
C28_TargetOverride ==
    /\ [](iterator.isTargetServerEntryIterator =>
              /\ iterator.yielded \in {<<>>, <<iterator.targetServerEntry.IpAddress>>}
              /\ iterator.hasNextTargetServerEntry = (iterator.yielded = <<>>))
    /\ [](lastOp.op = "newTargetServerEntryIterator" =>
              LET config == lastOp.config
                  target == config.TargetServerEntry
              IN  /\ ~lastOp.out
                  /\ lastOp.err = ~iterator.set
                  /\ (/\ ~lastOp.flag
                      /\ config.EgressRegion # <<>>
                      /\ target.Region # config.EgressRegion) => lastOp.err
                  /\ (/\ ~lastOp.flag
                      /\ config.LimitTunnelProtocols # {}
                      /\ target.protocols \cap config.LimitTunnelProtocols = {}) => lastOp.err
                  /\ (lastOp.flag /\ target.protocols \cap TacticsProtocols = {}) => lastOp.err
                  /\ ~lastOp.err =>
                        /\ iterator.isTargetServerEntryIterator
                        /\ iterator.hasNextTargetServerEntry
                        /\ iterator.targetServerEntry.IpAddress = target.IpAddress
                        /\ iterator.targetServerEntry.Region = target.Region)
    /\ [][(lastOp'.op = "ServerEntryIterator.Next" /\ iterator.isTargetServerEntryIterator) =>
              /\ ~lastOp'.err
              /\ lastOp'.out = iterator.hasNextTargetServerEntry
              /\ lastOp'.out => lastOp'.ip = iterator.targetServerEntry.IpAddress
              /\ ~iterator'.hasNextTargetServerEntry
              /\ iterator'.targetServerEntry = iterator.targetServerEntry]_vars
    /\ [][(lastOp'.op = "ServerEntryIterator.Reset" /\ iterator.isTargetServerEntryIterator) =>
              /\ ~lastOp'.err
              /\ iterator'.hasNextTargetServerEntry
              /\ iterator'.targetServerEntry = iterator.targetServerEntry]_vars

\* C28 witness: with a stored and promoted entry in the open datastore, an
\* iterator for a target entry returned the entry, then nil twice.
C28_Witness ==
    /\ iterator.isTargetServerEntryIterator
    /\ ~iterator.isTacticsServerEntryIterator
    /\ iterator.yielded = <<iterator.targetServerEntry.IpAddress>>
    /\ lastOp.op = "ServerEntryIterator.Next"
    /\ ~lastOp.out
    /\ lastOp.n = 1
    /\ dataStoreOpen
    /\ Ranked = <<OneServerEntry.ipAddress>>
    /\ iterator.targetServerEntry.IpAddress \notin DOMAIN boltFile.serverEntries

\* C29: between two Resets no step changes the list of ids of the iterator,
\* and Next returns no id that was first stored after the Reset; an entry that
\* Next returns has the region its record holds when Next runs, replaced or
\* not since the Reset; and with an iterator in its cycle a store and a
\* promotion can run, return no error and commit.
C29_SnapshotOfIds ==
    /\ [][(iterator.set /\ iterator'.set /\ lastOp'.op # "ServerEntryIterator.Reset") =>
              /\ iterator'.serverEntryIds = iterator.serverEntryIds
              /\ iterator'.stored = iterator.stored]_vars
    /\ [](iterator.set =>
              \A i \in 1..Len(iterator.yielded) :
                  /\ iterator.yielded[i] \in DOMAIN iterator.stored
                  /\ \E j \in 1..Len(iterator.serverEntryIds) :
                        iterator.serverEntryIds[j] = iterator.yielded[i])
    /\ [][(lastOp'.op = "ServerEntryIterator.Next" /\ lastOp'.out) =>
              /\ boltFile' = boltFile
              /\ lastOp'.region = boltFile.serverEntries[lastOp'.ip].Region.b]_vars
    /\ []((iterator.set /\ dataStoreOpen) =>
              /\ \A fields \in SnapshotServerEntryFields :
                    ENABLED StoreServerEntry(fields, TRUE)
              /\ \A ipAddress \in ServerIds :
                    ENABLED PromoteServerEntry([EgressRegion |-> <<67, 65>>], ipAddress))
    /\ [][(iterator.set /\ dataStoreOpen /\ lastOp'.op = "StoreServerEntry") =>
              /\ ~lastOp'.err
              /\ lastOp'.ip \in DOMAIN boltFile'.serverEntries
              /\ Ranked'[Min(2, Len(Ranked'))] = lastOp'.ip
              /\ iterator' = iterator]_vars
    /\ [][(iterator.set /\ dataStoreOpen /\ lastOp'.op = "PromoteServerEntry"
            /\ lastOp'.ip \in DOMAIN boltFile.serverEntries) =>
              /\ ~lastOp'.err
              /\ Ranked'[1] = lastOp'.ip
              /\ iterator' = iterator]_vars

\* C29 witness: Next returned, with the region "US", an entry that had the
\* region "CA" at the Reset, while another entry, stored since the Reset, is in
\* the datastore and not in the list of the iterator.
C29_Witness ==
    /\ iterator.set
    /\ lastOp.op = "ServerEntryIterator.Next"
    /\ lastOp.out
    /\ lastOp.region = <<85, 83>>
    /\ iterator.stored[lastOp.ip].Region.b = <<67, 65>>
    /\ \E ipAddress \in DOMAIN boltFile.serverEntries :
          /\ ipAddress \notin DOMAIN iterator.stored
          /\ \A j \in 1..Len(iterator.serverEntryIds) :
                iterator.serverEntryIds[j] # ipAddress

\* C30 (as claimed): when NewServerEntryIterator with a pool size of 1 or more
\* returns true with its iterator, the first id of the list of the iterator
\* is the entry promoted last, and that promotion ran under the EgressRegion
\* of the config.
C30_AffinityForPromotedHead ==
    (/\ lastOp.op = "ServerEntryIterator.Reset"
     /\ ~lastOp.err
     /\ lastOp.out
     /\ lastOp.n >= 1) =>
        /\ promoted.set
        /\ promoted.region = lastOp.region
        /\ Len(iterator.serverEntryIds) >= 1
        /\ iterator.serverEntryIds[1] = promoted.ipAddress

\* C31 (as claimed): on an open datastore a store of valid fields and a
\* promotion return no error, whatever stored bytes they meet: an entry or a
\* ranked vector that does not decode is skipped.
C31_CorruptionNotSurfaced ==
    /\ lastOp.op = "StoreServerEntry" => ~lastOp.out
    /\ (lastOp.op = "PromoteServerEntry" /\ dataStoreOpen) => ~lastOp.err

\* The stat buckets hold a record in state Reporting.
SomeReporting ==
    \E i \in 1..Len(persistentStatTypes) :
        \E k \in DOMAIN boltFile[persistentStatTypes[i]] :
            boltFile[persistentStatTypes[i]][k] = persistentStatStateReporting

C33_AllOrNothing ==
    [][ \A region \in RouteRegions, etag \in RouteValues, data \in RouteValues,
           failure \in PutFailures :
           (dataStoreOpen
              /\ SetSplitTunnelRoutesFailing(region, etag, data, failure)) =>
             /\ \/ /\ ~lastOp'.err
                   /\ BucketGet(boltFile'.splitTunnelRouteETags, region) = ToBytes(etag)
                   /\ BucketGet(boltFile'.splitTunnelRouteData, region) = ToBytes(data)
                \/ boltFile' = boltFile
             /\ failure # "none" => (lastOp'.err /\ boltFile' = boltFile) ]_vars

\* The stat keys of a file, each with the type of its bucket.
StatRecords(file) ==
    UNION {{<<persistentStatTypes[i], key>> :
                key \in DOMAIN file[persistentStatTypes[i]]} :
             i \in 1..Len(persistentStatTypes)}

\* The keys a stats map names, each with its type.
StatsNamed(stats) ==
    UNION {{<<persistentStatTypes[i], StatsOf(stats, persistentStatTypes[i])[j]>> :
                j \in 1..Len(StatsOf(stats, persistentStatTypes[i]))} :
             i \in 1..Len(persistentStatTypes)}

C35_ResetNotObservable ==
    /\ [](openPC = "reset" => lastOp.op = "OpenDataStore")
    /\ [][ lastOp'.op = "resetAllPersistentStatsToUnreported" =>
             \A caller \in Callers :
                \A record \in StatsNamed(taken[caller]) \cap StatRecords(boltFile) :
                   boltFile'[record[1]][record[2]] = boltFile[record[1]][record[2]] ]_vars

\* C36 (as claimed): when OpenDataStore returns the error of one of its two
\* updates, no handle is published and no bolt.DB is left holding the lock of
\* the file; and an OpenDataStore that finds the file of an earlier, failed
\* OpenDataStore attaches it at its first attempt and removes nothing.
C36_FailedOpenReleases ==
    /\ []((lastOp.op = "OpenDataStore" /\ lastOp.err
             /\ lastOp.config \in {"createBuckets", "deleteBucketUpdate"}) =>
            (~dataStoreOpen /\ ~disk.leaked))
    /\ [][ (lastOp.op = "OpenDataStore" /\ lastOp.err
              /\ lastOp.config \in {"createBuckets", "deleteBucketUpdate"}
              /\ lastOp'.op = "OpenDataStore") =>
             (lastOp'.n = 1 /\ ~lastOp'.flag /\ disk'.file = "valid") ]_vars

\* C37 (as claimed): the server entry a Next returns has the region its own
\* stored record has, and no region when the record has no region key.
C37_NextOwnRecord ==
    (lastOp.op = "ServerEntryIterator.Next" /\ lastOp.out) =>
        /\ lastOp.ip \in DOMAIN boltFile.serverEntries
        /\ lastOp.region =
              IF boltFile.serverEntries[lastOp.ip].Region.isNil THEN <<>>
              ELSE boltFile.serverEntries[lastOp.ip].Region.b

\* Start has returned startErrorJson after its OpenDataStore had opened the
\* datastore and done its reset.
StartFailedAfterOpen ==
    /\ lastOp.op = "Start"
    /\ lastOp.err
    /\ lastOp.prev = "resetAllPersistentStatsToUnreported"

\* C38 (as claimed): when Start has returned an error after it had opened the
\* datastore, as startErrorJson or as result code 2 of its select, the
\* datastore is closed and no controller runs; and the OpenDataStore of a
\* Start that follows does not fail.
C38_FailedStartRestartable ==
    /\ [](StartFailedAfterOpen => ~dataStoreOpen)
    /\ []((startCall.pc = "returned"
            /\ startCall.result.Code = startResultCodeOtherError) =>
            (~dataStoreOpen /\ startCall.controller # "running"))
    /\ [][ (StartFailedAfterOpen /\ lastOp'.op = "OpenDataStore") =>
              ~lastOp'.err ]_vars

====
